---- MODULE Spec2Model ----
(***************************************************************************)
(* Plan / Review / Execute control loop of the kitchen assistant           *)
(* (src/gpt-oss-chat-function-ui.py, class GPTOSSChatBot).                 *)
(*                                                                         *)
(* Python values are modelled as records [ty, txt]: ty is the Python type  *)
(* and txt is what str() prints for the value.  A dict is a TLA+ function  *)
(* from its keys to such values.  Timestamps in payloads and UI callbacks  *)
(* (on_tool_result, on_plan_update, logging) are left out: they do not     *)
(* touch the bot's state.                                                  *)
(***************************************************************************)
EXTENDS Integers, Sequences, FiniteSets, TLC

(***************************************************************************)
(* Bounds of the model.                                                    *)
(***************************************************************************)
\* tool calls the model service may request over a whole run
MaxCalls == 2
\* tool calls in one model reply
MaxBatch == 2
\* chat() calls made by the user over a whole run
MaxChats == 1
\* threads of the front end that are inside chat() at once
MaxWorkers == 2
\* tool calls the model service asks for while one plan is created, reviewed
\* and worked through
MaxPlanCalls == 3

\* _call_gpt_oss: the step bound of the control loop
max_steps == 50

(***************************************************************************)
(* Python values.                                                          *)
(***************************************************************************)
S(t) == [ty |-> "str", txt |-> t]
B(b) == [ty |-> "bool", txt |-> IF b THEN "True" ELSE "False"]
I(t) == [ty |-> "int", txt |-> t]
None == [ty |-> "none", txt |-> "None"]

\* Python truthiness of a scalar value
Truthy(v) ==
    CASE v.ty = "none" -> FALSE
      [] v.ty = "str" -> v.txt # ""
      [] v.ty = "bool" -> v.txt = "True"
      [] v.ty = "int" -> v.txt # "0"
      [] v.ty = "float" -> v.txt # "0.0"
      [] OTHER -> TRUE

\* str(v): a string whose text is what str() prints
Str(v) == [ty |-> "str", txt |-> v.txt]

\* isinstance(v, (str, int, float)); bool is a subclass of int
IsScalar(v) == v.ty \in {"str", "int", "float", "bool"}

EmptyDict == [k \in {} |-> None]

\* dict.get(k) with the default None
Get(d, k) == IF k \in DOMAIN d THEN d[k] ELSE None

\* a or b
Or(a, b) == IF Truthy(a) THEN a ELSE b

\* dict.update: the supplied keys overwrite, all other keys stay
Merge(d, upd) ==
    [k \in (DOMAIN d) \cup (DOMAIN upd) |-> IF k \in DOMAIN upd THEN upd[k] ELSE d[k]]

(***************************************************************************)
(* Canonical commands.                                                     *)
(***************************************************************************)
OpenCabinet == "Open the left cabinet door"
CloseCabinet == "Close the left cabinet door"
TakeOffLid == "Take off the lid from the gray recipient and place it on the counter"
PutOnLid == "Pick up the lid from the counter and put it on the gray recipient"
PickPineapple == "Pick up the green pineapple from the left cabinet and place it in the gray recipient"
PutSalt == "Put salt in the gray recipient"

CANONICAL_COMMANDS ==
    {OpenCabinet, CloseCabinet, TakeOffLid, PutOnLid, PickPineapple, PutSalt}

\* Code points that decide the order of two canonical commands: the first
\* character, the second, and the thirteenth (where the two "Pick up the"
\* commands differ).  Python's sorted() compares strings code point by code
\* point; on CANONICAL_COMMANDS this key gives the same order.
CodeKey(s) ==
    CASE s = CloseCabinet -> <<67, 108, 102>>
      [] s = OpenCabinet -> <<79, 112, 116>>
      [] s = PickPineapple -> <<80, 105, 103>>
      [] s = PutOnLid -> <<80, 105, 108>>
      [] s = PutSalt -> <<80, 117, 116>>
      [] s = TakeOffLid -> <<84, 97, 32>>

StrLess(a, b) ==
    LET ka == CodeKey(a)
        kb == CodeKey(b)
    IN \E i \in 1..3 : /\ ka[i] < kb[i]
                       /\ \A j \in 1..(i - 1) : ka[j] = kb[j]

RECURSIVE SortedList(_)
\* sorted(list(set)): repeatedly take the least remaining element
SortedList(set) ==
    IF set = {} THEN <<>>
    ELSE LET least == CHOOSE a \in set : \A b \in set \ {a} : StrLess(a, b)
         IN <<least>> \o SortedList(set \ {least})

(***************************************************************************)
(* Plan entries and title extraction.                                      *)
(* A plan entry is [isdict, d, repr]: d is the dict (empty for an entry    *)
(* that is not a dict) and repr is what str(entry) prints.                 *)
(***************************************************************************)
DictEntry(d, repr) == [isdict |-> TRUE, d |-> d, repr |-> repr]
StrEntry(t) == [isdict |-> FALSE, d |-> EmptyDict, repr |-> t]

\* a list argument, or a value that is not a list
ListOf(items) == [islist |-> TRUE, items |-> items]
NoList == [islist |-> FALSE, items |-> <<>>]

\* create_plan: the description of one task
PlanTitle(task) ==
    IF task.isdict
    THEN LET d == task.d
             description ==
                 Or(Get(d, "title"),
                 Or(Get(d, "description"),
                 Or(Get(d, "command"),
                 Or(Get(d, "action"),
                 Or(Get(d, "name"),
                 Or(Get(d, "step"),
                 Or(Get(d, "instruction"), Get(d, "task"))))))))
             single ==
                 IF description = None /\ Cardinality(DOMAIN d) = 1
                 THEN LET only_val == d[CHOOSE k \in DOMAIN d : TRUE]
                      IN IF IsScalar(only_val) THEN Str(only_val) ELSE description
                 ELSE description
         IN IF single = None THEN S(task.repr) ELSE single
    ELSE S(task.repr)

\* create_plan: formatted_tasks
FormatTasks(tasks) ==
    [i \in 1..Len(tasks) |-> [id |-> i, title |-> PlanTitle(tasks[i]), done |-> FALSE]]

\* review_plan: the title of one revised step
RevisedTitle(step) ==
    IF step.isdict
    THEN LET d == step.d
             title ==
                 Or(Get(d, "title"),
                 Or(Get(d, "description"),
                 Or(Get(d, "command"),
                 Or(Get(d, "action"),
                 Or(Get(d, "name"),
                 Or(Get(d, "step"),
                 Or(Get(d, "instruction"), Get(d, "task"))))))))
             single ==
                 IF title = None /\ Cardinality(DOMAIN d) = 1
                 THEN LET only_val == d[CHOOSE k \in DOMAIN d : TRUE]
                      IN IF IsScalar(only_val) THEN Str(only_val) ELSE title
                 ELSE title
         IN IF single = None THEN S(step.repr) ELSE single
    ELSE S(step.repr)

\* variant of FormatRevised that prints each step instead of extracting its title
FormatRevised_printed(revised) ==
    [i \in 1..Len(revised) |-> [id |-> i, title |-> S(revised[i].repr), done |-> FALSE]]

\* review_plan: formatted
FormatRevised(revised) ==
    [i \in 1..Len(revised) |-> [id |-> i, title |-> RevisedTitle(revised[i]), done |-> FALSE]]

(***************************************************************************)
(* Payloads.  A payload field that holds the bot's own task list or        *)
(* kitchen state holds the object, not a copy: json.dumps at the end of    *)
(* the batch prints what the object holds then.  Such a field is a         *)
(* reference [live, val]: live while it points at the bot's current        *)
(* object, frozen to a value once the object has been replaced or printed. *)
(***************************************************************************)
LiveTasks == [live |-> TRUE, val |-> <<>>]
LiveState == [live |-> TRUE, val |-> EmptyDict]
Frozen(val) == [live |-> FALSE, val |-> val]

TaskFields == {"updated_tasks", "current_plan", "created_plan"}
StateFields == {"updated_state", "kitchen_state"}

\* the task list object is replaced: references to the old one keep its value
FreezeTasks(p, tl) ==
    [f \in DOMAIN p |-> IF f \in TaskFields /\ p[f].live THEN Frozen(tl) ELSE p[f]]

FreezeAll(results, tl) == [i \in 1..Len(results) |-> FreezeTasks(results[i], tl)]

\* json.dumps(result_payload)
JsonDumps(p, tl, ks) ==
    [json |-> [f \in DOMAIN p |->
                  IF f \in TaskFields /\ p[f].live THEN Frozen(tl)
                  ELSE IF f \in StateFields /\ p[f].live THEN Frozen(ks)
                  ELSE p[f]]]

\* message content that is plain text
Text(t) == [text |-> t]

(***************************************************************************)
(* The bot.  A handler is an operator from the bot's fields (self) and its *)
(* arguments to [self, ret, replaced]: the fields afterwards, the payload  *)
(* it returns, and whether it replaced the task list object.               *)
(* self.sent and self.reviews record the calls made to the actuator's      *)
(* send() and the requests made to the validator; self.partials records    *)
(* the mappings update_kitchen_state merged, in call order.                *)
(***************************************************************************)
Result(self, ret, replaced) == [self |-> self, ret |-> ret, replaced |-> replaced]

\* variant of send that uses the socket whatever the toggle says
send_ignores_toggle(enabled, outcome) ==
    IF outcome = "ack"
    THEN [raised |-> FALSE, resp |-> S("ack"), connected |-> TRUE]
    ELSE [raised |-> TRUE, resp |-> S("connection refused"), connected |-> TRUE]

\* the actuator's send(cmd); outcome is what the socket does when it is used,
\* connected whether s.connect() was called
send(enabled, outcome) ==
    IF enabled
    THEN IF outcome = "ack"
         THEN [raised |-> FALSE, resp |-> S("ack"), connected |-> TRUE]
         ELSE [raised |-> TRUE, resp |-> S("connection refused"), connected |-> TRUE]
    ELSE [raised |-> FALSE, resp |-> None, connected |-> FALSE]

\* variant of execute_robot_command without the canonical check
execute_robot_command_unchecked(self, language_instruction, enabled, outcome) ==
    LET r == send(enabled, outcome)
        after == [self EXCEPT !.sent = Append(@, [instruction |-> language_instruction,
                                                  approved |-> self.plan_approved,
                                                  connected |-> r.connected])]
    IN IF r.raised
       THEN Result(after,
                   [status |-> "error", error |-> r.resp.txt,
                    instruction |-> language_instruction, use_angle_stop |-> TRUE],
                   FALSE)
       ELSE Result(after,
                   [status |-> "success", result |-> r.resp,
                    instruction |-> language_instruction, use_angle_stop |-> TRUE],
                   FALSE)

\* variant of execute_robot_command that infers the kitchen state from the
\* instruction it forwarded
execute_robot_command_infers(self, language_instruction, enabled, outcome) ==
    IF language_instruction \notin CANONICAL_COMMANDS
    THEN Result(self,
                [status |-> "error",
                 error |-> "Non-canonical command. Use an exact phrase from the canonical list.",
                 instruction |-> language_instruction,
                 allowed |-> SortedList(CANONICAL_COMMANDS)],
                FALSE)
    ELSE LET r == send(enabled, outcome)
             after == [self EXCEPT !.sent = Append(@, [instruction |-> language_instruction,
                                                       approved |-> self.plan_approved,
                                                       connected |-> r.connected]),
                                   !.kitchen_state =
                                       IF language_instruction = PutSalt
                                       THEN Merge(@, [salt_added |-> B(TRUE)]) ELSE @]
         IN IF r.raised
            THEN Result(after,
                        [status |-> "error", error |-> r.resp.txt,
                         instruction |-> language_instruction, use_angle_stop |-> TRUE],
                        FALSE)
            ELSE Result(after,
                        [status |-> "success", result |-> r.resp,
                         instruction |-> language_instruction, use_angle_stop |-> TRUE],
                        FALSE)

\* variant of execute_robot_command that reports a fault of send() as a
\* success without a result
execute_robot_command_swallows(self, language_instruction, enabled, outcome) ==
    IF language_instruction \notin CANONICAL_COMMANDS
    THEN Result(self,
                [status |-> "error",
                 error |-> "Non-canonical command. Use an exact phrase from the canonical list.",
                 instruction |-> language_instruction,
                 allowed |-> SortedList(CANONICAL_COMMANDS)],
                FALSE)
    ELSE LET r == send(enabled, outcome)
             after == [self EXCEPT !.sent = Append(@, [instruction |-> language_instruction,
                                                       approved |-> self.plan_approved,
                                                  connected |-> r.connected])]
         IN Result(after,
                   [status |-> "success", result |-> IF r.raised THEN None ELSE r.resp,
                    instruction |-> language_instruction, use_angle_stop |-> TRUE],
                   FALSE)

execute_robot_command(self, language_instruction, enabled, outcome) ==
    IF language_instruction \notin CANONICAL_COMMANDS
    THEN Result(self,
                [status |-> "error",
                 error |-> "Non-canonical command. Use an exact phrase from the canonical list.",
                 instruction |-> language_instruction,
                 allowed |-> SortedList(CANONICAL_COMMANDS)],
                FALSE)
    ELSE LET r == send(enabled, outcome)
             after == [self EXCEPT !.sent = Append(@, [instruction |-> language_instruction,
                                                       approved |-> self.plan_approved,
                                                  connected |-> r.connected])]
         IN IF r.raised
            THEN Result(after,
                        [status |-> "error", error |-> r.resp.txt,
                         instruction |-> language_instruction, use_angle_stop |-> TRUE],
                        FALSE)
            ELSE Result(after,
                        [status |-> "success", result |-> r.resp,
                         instruction |-> language_instruction, use_angle_stop |-> TRUE],
                        FALSE)

\* variant of update_kitchen_state that stores the partial in place of the map
update_kitchen_state_replaces(self, state_updates) ==
    IF state_updates.isnone
    THEN Result(self, [status |-> "error",
                       error |-> "Missing required field: state_updates (object)"], FALSE)
    ELSE IF ~state_updates.isdict
    THEN Result(self, [status |-> "error", error |-> "state_updates must be an object"], FALSE)
    ELSE Result([self EXCEPT !.kitchen_state = state_updates.d,
                             !.partials = Append(@, state_updates.d)],
                [status |-> "success", updated_state |-> LiveState], FALSE)

\* variant of update_kitchen_state that accepts an argument that is not a
\* dict as an empty update
update_kitchen_state_lenient(self, state_updates) ==
    IF state_updates.isnone
    THEN Result(self, [status |-> "error",
                       error |-> "Missing required field: state_updates (object)"], FALSE)
    ELSE IF ~state_updates.isdict
    THEN Result(self, [status |-> "success", updated_state |-> LiveState], FALSE)
    ELSE Result([self EXCEPT !.kitchen_state = Merge(@, state_updates.d),
                             !.partials = Append(@, state_updates.d)],
                [status |-> "success", updated_state |-> LiveState], FALSE)

\* state_updates is [isnone, isdict, d]
update_kitchen_state(self, state_updates) ==
    IF state_updates.isnone
    THEN Result(self, [status |-> "error",
                       error |-> "Missing required field: state_updates (object)"], FALSE)
    ELSE IF ~state_updates.isdict
    THEN Result(self, [status |-> "error", error |-> "state_updates must be an object"], FALSE)
    ELSE Result([self EXCEPT !.kitchen_state = Merge(@, state_updates.d),
                             !.partials = Append(@, state_updates.d)],
                [status |-> "success", updated_state |-> LiveState], FALSE)

\* variant of mark_task_complete that flips the done flag
mark_task_complete_toggles(self, task_id) ==
    LET hits == {i \in 1..Len(self.task_list) : self.task_list[i].id = task_id}
        first == CHOOSE i \in hits : \A j \in hits : i <= j
    IN Result(IF hits = {} THEN self
              ELSE [self EXCEPT !.task_list[first].done = ~@],
              [status |-> "success", updated_tasks |-> LiveTasks], FALSE)

\* variant of mark_task_complete that marks every task up to the given id
mark_task_complete_upto(self, task_id) ==
    Result([self EXCEPT !.task_list =
               [i \in 1..Len(@) |-> IF @[i].id <= task_id THEN [@[i] EXCEPT !.done = TRUE]
                                    ELSE @[i]]],
           [status |-> "success", updated_tasks |-> LiveTasks], FALSE)

\* variant of mark_task_complete that takes the finished task off the list
mark_task_complete_removes(self, task_id) ==
    Result([self EXCEPT !.task_list =
               SelectSeq(@, LAMBDA task : task.id # task_id)],
           [status |-> "success", updated_tasks |-> LiveTasks], FALSE)

mark_task_complete(self, task_id) ==
    LET hits == {i \in 1..Len(self.task_list) : self.task_list[i].id = task_id}
        first == CHOOSE i \in hits : \A j \in hits : i <= j
    IN Result(IF hits = {} THEN self
              ELSE [self EXCEPT !.task_list[first].done = TRUE],
              [status |-> "success", updated_tasks |-> LiveTasks], FALSE)

get_current_plan(self) ==
    Result(self, [status |-> "success", current_plan |-> LiveTasks,
                  kitchen_state |-> LiveState], FALSE)

\* variant of create_plan that leaves plan_approved alone
create_plan_keeps_approval(self, tasks) ==
    IF ~tasks.islist
    THEN Result(self, [status |-> "error", error |-> "tasks must be a list"], FALSE)
    ELSE Result([self EXCEPT !.task_list = FormatTasks(tasks.items)],
                [status |-> "success", created_plan |-> LiveTasks], TRUE)

\* variant of create_plan that adds the new tasks to the tasks it has
create_plan_merges(self, tasks) ==
    LET reset == [self EXCEPT !.plan_approved = FALSE]
    IN IF ~tasks.islist
       THEN Result(reset, [status |-> "error", error |-> "tasks must be a list"], FALSE)
       ELSE Result([reset EXCEPT !.task_list = @ \o FormatTasks(tasks.items)],
                   [status |-> "success", created_plan |-> LiveTasks], TRUE)

\* variant of create_plan that checks its argument before it resets the approval
create_plan_checks_first(self, tasks) ==
    LET reset == [self EXCEPT !.plan_approved = FALSE]
    IN IF ~tasks.islist
       THEN Result(self, [status |-> "error", error |-> "tasks must be a list"], FALSE)
       ELSE Result([reset EXCEPT !.task_list = FormatTasks(tasks.items)],
                   [status |-> "success", created_plan |-> LiveTasks], TRUE)

\* tasks is ListOf(entries) or NoList
create_plan(self, tasks) ==
    LET reset == [self EXCEPT !.plan_approved = FALSE]
    IN IF ~tasks.islist
       THEN Result(reset, [status |-> "error", error |-> "tasks must be a list"], FALSE)
       ELSE Result([reset EXCEPT !.task_list = FormatTasks(tasks.items)],
                   [status |-> "success", created_plan |-> LiveTasks], TRUE)

(***************************************************************************)
(* The validator's reply.  The text of a reply is a sequence of tokens:    *)
(* braces, prose, white space, a JSON scalar, and the body of a JSON       *)
(* object (the verdict's keys and values, braces of nested objects         *)
(* included).                                                              *)
(***************************************************************************)
LB == [t |-> "{"]
RB == [t |-> "}"]
Prose == [t |-> "prose"]
WS == [t |-> "ws"]
Scalar == [t |-> "scalar"]
Body(v) == [t |-> "body", v |-> v]

RECURSIVE Strip(_)
\* str.strip()
Strip(c) ==
    IF c # <<>> /\ Head(c) = WS THEN Strip(Tail(c))
    ELSE IF c # <<>> /\ c[Len(c)] = WS THEN Strip(SubSeq(c, 1, Len(c) - 1))
    ELSE c

\* json.loads(text): [ok, isobj, obj]
JsonLoads(text) ==
    LET c == Strip(text)
    IN IF c = <<LB, RB>> THEN [ok |-> TRUE, isobj |-> TRUE, obj |-> EmptyDict]
       ELSE IF Len(c) = 3 /\ c[1] = LB /\ c[2].t = "body" /\ c[3] = RB
       THEN [ok |-> TRUE, isobj |-> TRUE, obj |-> c[2].v]
       ELSE IF c = <<Scalar>> THEN [ok |-> TRUE, isobj |-> FALSE, obj |-> EmptyDict]
       ELSE [ok |-> FALSE, isobj |-> FALSE, obj |-> EmptyDict]

\* str.find / str.rfind, positions counted from 1, -1 when absent
Find(c, tok) ==
    LET at == {i \in 1..Len(c) : c[i] = tok}
    IN IF at = {} THEN -1 ELSE CHOOSE i \in at : \A j \in at : i <= j

RFind(c, tok) ==
    LET at == {i \in 1..Len(c) : c[i] = tok}
    IN IF at = {} THEN -1 ELSE CHOOSE i \in at : \A j \in at : i >= j

\* variant of ParseVerdict whose fallback stops at the first "}"
ParseVerdict_first_close(content) ==
    LET direct == JsonLoads(content)
        start == Find(content, LB)
        end == Find(content, RB)
    IN IF direct.ok THEN direct
       ELSE IF start # -1 /\ end # -1 /\ end > start
       THEN JsonLoads(SubSeq(content, start, end))
       ELSE [ok |-> FALSE, isobj |-> FALSE, obj |-> EmptyDict]

\* review_plan: json.loads(content), then the substring from the first "{"
\* to the last "}"
ParseVerdict(content) ==
    LET direct == JsonLoads(content)
        start == Find(content, LB)
        end == RFind(content, RB)
    IN IF direct.ok THEN direct
       ELSE IF start # -1 /\ end # -1 /\ end > start
       THEN JsonLoads(SubSeq(content, start, end))
       ELSE [ok |-> FALSE, isobj |-> FALSE, obj |-> EmptyDict]

\* _parse_gpt_response and the two .get calls that follow it: a body that
\* is not JSON becomes the content itself, a JSON body without a message
\* gives the default ""
MessageOf(body, key, default) ==
    IF body.kind \in {"chat", "text"} /\ key \in DOMAIN body.message
    THEN body.message[key]
    ELSE default

\* the plan message review_plan composes from the task titles
PlanMessage(task_list) ==
    [text |-> "Here's my plan: ... I'll execute it now.",
     steps |-> [i \in 1..Len(task_list) |-> task_list[i].title]]

BeginExecuting ==
    Text("Begin executing the plan now. Call execute_robot_command for the first task.")

\* variant of review_plan that applies a revised plan whatever the verdict
review_plan_applies_always(self, reply) ==
    LET asked == [self EXCEPT !.reviews = @ + 1]
        content == Strip(MessageOf(reply.body, "content", <<>>))
        parsed == ParseVerdict(content)
        result == parsed.obj
        approved == Truthy(Get(result, "approved"))
        reasons == IF "reasons" \in DOMAIN result /\ result["reasons"].islist
                   THEN result["reasons"].items ELSE <<>>
        revised == IF "revised_plan" \in DOMAIN result /\ result["revised_plan"].islist
                   THEN result["revised_plan"] ELSE NoList
        apply == revised.islist /\ revised.items # <<>>
        planned == IF apply THEN [asked EXCEPT !.task_list = FormatRevised(revised.items)]
                   ELSE asked
        tracked == [planned EXCEPT !.plan_approved = approved]
        told == IF approved /\ tracked.task_list # <<>>
                THEN [tracked EXCEPT !.conversation_history =
                         @ \o <<[role |-> "assistant", content |-> PlanMessage(tracked.task_list)],
                                [role |-> "system", content |-> BeginExecuting]>>]
                ELSE tracked
    IN IF reply.exc
       THEN Result(asked, [status |-> "error", error |-> "request failed"], FALSE)
       ELSE IF reply.status_code # 200
       THEN Result(asked, [status |-> "error", error |-> "HTTP error"], FALSE)
       ELSE IF ~parsed.ok
       THEN Result(asked, [status |-> "error", error |-> "Invalid validator reply",
                           raw |-> content], FALSE)
       ELSE IF ~parsed.isobj
       THEN Result(asked, [status |-> "error", error |-> "object has no attribute 'get'"], FALSE)
       ELSE Result(told,
                   [status |-> "success", approved |-> approved, reasons |-> reasons,
                    applied_revision |-> apply],
                   apply)

\* variant of review_plan that records an approval and never withdraws it
review_plan_latches(self, reply) ==
    LET asked == [self EXCEPT !.reviews = @ + 1]
        content == Strip(MessageOf(reply.body, "content", <<>>))
        parsed == ParseVerdict(content)
        result == parsed.obj
        approved == Truthy(Get(result, "approved"))
        reasons == IF "reasons" \in DOMAIN result /\ result["reasons"].islist
                   THEN result["reasons"].items ELSE <<>>
        revised == IF "revised_plan" \in DOMAIN result /\ result["revised_plan"].islist
                   THEN result["revised_plan"] ELSE NoList
        apply == revised.islist /\ revised.items # <<>> /\ ~approved
        planned == IF apply THEN [asked EXCEPT !.task_list = FormatRevised(revised.items)]
                   ELSE asked
        tracked == [planned EXCEPT !.plan_approved = @ \/ approved]
        told == IF approved /\ tracked.task_list # <<>>
                THEN [tracked EXCEPT !.conversation_history =
                         @ \o <<[role |-> "assistant", content |-> PlanMessage(tracked.task_list)],
                                [role |-> "system", content |-> BeginExecuting]>>]
                ELSE tracked
    IN IF reply.exc
       THEN Result(asked, [status |-> "error", error |-> "request failed"], FALSE)
       ELSE IF reply.status_code # 200
       THEN Result(asked, [status |-> "error", error |-> "HTTP error"], FALSE)
       ELSE IF ~parsed.ok
       THEN Result(asked, [status |-> "error", error |-> "Invalid validator reply",
                           raw |-> content], FALSE)
       ELSE IF ~parsed.isobj
       THEN Result(asked, [status |-> "error", error |-> "object has no attribute 'get'"], FALSE)
       ELSE Result(told,
                   [status |-> "success", approved |-> approved, reasons |-> reasons,
                    applied_revision |-> apply],
                   apply)

\* reply is [exc, status_code, body]: the request raised, or the response
\* variant of review_plan that makes its request part of the conversation
review_plan_shares_history(self, reply) ==
    LET asked == [self EXCEPT !.reviews = @ + 1,
                              !.conversation_history =
                                  @ \o <<[role |-> "system", content |-> Text("rubric")],
                                         [role |-> "user", content |-> Text("review_data")]>>]
        content == Strip(MessageOf(reply.body, "content", <<>>))
        parsed == ParseVerdict(content)
        result == parsed.obj
        approved == Truthy(Get(result, "approved"))
        reasons == IF "reasons" \in DOMAIN result /\ result["reasons"].islist
                   THEN result["reasons"].items ELSE <<>>
        revised == IF "revised_plan" \in DOMAIN result /\ result["revised_plan"].islist
                   THEN result["revised_plan"] ELSE NoList
        apply == revised.islist /\ revised.items # <<>> /\ ~approved
        planned == IF apply THEN [asked EXCEPT !.task_list = FormatRevised(revised.items)]
                   ELSE asked
        tracked == [planned EXCEPT !.plan_approved = approved]
        told == IF approved /\ tracked.task_list # <<>>
                THEN [tracked EXCEPT !.conversation_history =
                         @ \o <<[role |-> "assistant", content |-> PlanMessage(tracked.task_list)],
                                [role |-> "system", content |-> BeginExecuting]>>]
                ELSE tracked
    IN IF reply.exc
       THEN Result(asked, [status |-> "error", error |-> "request failed"], FALSE)
       ELSE IF reply.status_code # 200
       THEN Result(asked, [status |-> "error", error |-> "HTTP error"], FALSE)
       ELSE IF ~parsed.ok
       THEN Result(asked, [status |-> "error", error |-> "Invalid validator reply",
                           raw |-> content], FALSE)
       ELSE IF ~parsed.isobj
       THEN Result(asked, [status |-> "error", error |-> "object has no attribute 'get'"], FALSE)
       ELSE Result(told,
                   [status |-> "success", approved |-> approved, reasons |-> reasons,
                    applied_revision |-> apply],
                   apply)

\* variant of review_plan that takes a verdict without an approved key as an
\* approval
review_plan_approves_by_default(self, reply) ==
    LET asked == [self EXCEPT !.reviews = @ + 1]
        content == Strip(MessageOf(reply.body, "content", <<>>))
        parsed == ParseVerdict(content)
        result == parsed.obj
        approved == "approved" \notin DOMAIN result \/ Truthy(Get(result, "approved"))
        reasons == IF "reasons" \in DOMAIN result /\ result["reasons"].islist
                   THEN result["reasons"].items ELSE <<>>
        revised == IF "revised_plan" \in DOMAIN result /\ result["revised_plan"].islist
                   THEN result["revised_plan"] ELSE NoList
        apply == revised.islist /\ revised.items # <<>> /\ ~approved
        planned == IF apply THEN [asked EXCEPT !.task_list = FormatRevised(revised.items)]
                   ELSE asked
        tracked == [planned EXCEPT !.plan_approved = approved]
        told == IF approved /\ tracked.task_list # <<>>
                THEN [tracked EXCEPT !.conversation_history =
                         @ \o <<[role |-> "assistant", content |-> PlanMessage(tracked.task_list)],
                                [role |-> "system", content |-> BeginExecuting]>>]
                ELSE tracked
    IN IF reply.exc
       THEN Result(asked, [status |-> "error", error |-> "request failed"], FALSE)
       ELSE IF reply.status_code # 200
       THEN Result(asked, [status |-> "error", error |-> "HTTP error"], FALSE)
       ELSE IF ~parsed.ok
       THEN Result(asked, [status |-> "error", error |-> "Invalid validator reply",
                           raw |-> content], FALSE)
       ELSE IF ~parsed.isobj
       THEN Result(asked, [status |-> "error", error |-> "object has no attribute 'get'"], FALSE)
       ELSE Result(told,
                   [status |-> "success", approved |-> approved, reasons |-> reasons,
                    applied_revision |-> apply],
                   apply)

\* variant of review_plan that withdraws the approval when the review fails
review_plan_fails_closed(self, reply) ==
    LET asked == [self EXCEPT !.reviews = @ + 1]
        content == Strip(MessageOf(reply.body, "content", <<>>))
        parsed == ParseVerdict(content)
        result == parsed.obj
        approved == Truthy(Get(result, "approved"))
        reasons == IF "reasons" \in DOMAIN result /\ result["reasons"].islist
                   THEN result["reasons"].items ELSE <<>>
        revised == IF "revised_plan" \in DOMAIN result /\ result["revised_plan"].islist
                   THEN result["revised_plan"] ELSE NoList
        apply == revised.islist /\ revised.items # <<>> /\ ~approved
        planned == IF apply THEN [asked EXCEPT !.task_list = FormatRevised(revised.items)]
                   ELSE asked
        tracked == [planned EXCEPT !.plan_approved = approved]
        told == IF approved /\ tracked.task_list # <<>>
                THEN [tracked EXCEPT !.conversation_history =
                         @ \o <<[role |-> "assistant", content |-> PlanMessage(tracked.task_list)],
                                [role |-> "system", content |-> BeginExecuting]>>]
                ELSE tracked
    IN IF reply.exc
       THEN Result([asked EXCEPT !.plan_approved = FALSE], [status |-> "error", error |-> "request failed"], FALSE)
       ELSE IF reply.status_code # 200
       THEN Result([asked EXCEPT !.plan_approved = FALSE], [status |-> "error", error |-> "HTTP error"], FALSE)
       ELSE IF ~parsed.ok
       THEN Result([asked EXCEPT !.plan_approved = FALSE], [status |-> "error", error |-> "Invalid validator reply",
                           raw |-> content], FALSE)
       ELSE IF ~parsed.isobj
       THEN Result([asked EXCEPT !.plan_approved = FALSE], [status |-> "error", error |-> "object has no attribute 'get'"], FALSE)
       ELSE Result(told,
                   [status |-> "success", approved |-> approved, reasons |-> reasons,
                    applied_revision |-> apply],
                   apply)

\* variant of review_plan that applies a revised plan without steps
review_plan_applies_empty(self, reply) ==
    LET asked == [self EXCEPT !.reviews = @ + 1]
        content == Strip(MessageOf(reply.body, "content", <<>>))
        parsed == ParseVerdict(content)
        result == parsed.obj
        approved == Truthy(Get(result, "approved"))
        reasons == IF "reasons" \in DOMAIN result /\ result["reasons"].islist
                   THEN result["reasons"].items ELSE <<>>
        revised == IF "revised_plan" \in DOMAIN result /\ result["revised_plan"].islist
                   THEN result["revised_plan"] ELSE NoList
        apply == revised.islist /\ ~approved
        planned == IF apply THEN [asked EXCEPT !.task_list = FormatRevised(revised.items)]
                   ELSE asked
        tracked == [planned EXCEPT !.plan_approved = approved]
        told == IF approved /\ tracked.task_list # <<>>
                THEN [tracked EXCEPT !.conversation_history =
                         @ \o <<[role |-> "assistant", content |-> PlanMessage(tracked.task_list)],
                                [role |-> "system", content |-> BeginExecuting]>>]
                ELSE tracked
    IN IF reply.exc
       THEN Result(asked, [status |-> "error", error |-> "request failed"], FALSE)
       ELSE IF reply.status_code # 200
       THEN Result(asked, [status |-> "error", error |-> "HTTP error"], FALSE)
       ELSE IF ~parsed.ok
       THEN Result(asked, [status |-> "error", error |-> "Invalid validator reply",
                           raw |-> content], FALSE)
       ELSE IF ~parsed.isobj
       THEN Result(asked, [status |-> "error", error |-> "object has no attribute 'get'"], FALSE)
       ELSE Result(told,
                   [status |-> "success", approved |-> approved, reasons |-> reasons,
                    applied_revision |-> apply],
                   apply)

review_plan(self, reply) ==
    LET asked == [self EXCEPT !.reviews = @ + 1]
        content == Strip(MessageOf(reply.body, "content", <<>>))
        parsed == ParseVerdict(content)
        result == parsed.obj
        approved == Truthy(Get(result, "approved"))
        reasons == IF "reasons" \in DOMAIN result /\ result["reasons"].islist
                   THEN result["reasons"].items ELSE <<>>
        revised == IF "revised_plan" \in DOMAIN result /\ result["revised_plan"].islist
                   THEN result["revised_plan"] ELSE NoList
        apply == revised.islist /\ revised.items # <<>> /\ ~approved
        planned == IF apply THEN [asked EXCEPT !.task_list = FormatRevised(revised.items)]
                   ELSE asked
        tracked == [planned EXCEPT !.plan_approved = approved]
        told == IF approved /\ tracked.task_list # <<>>
                THEN [tracked EXCEPT !.conversation_history =
                         @ \o <<[role |-> "assistant", content |-> PlanMessage(tracked.task_list)],
                                [role |-> "system", content |-> BeginExecuting]>>]
                ELSE tracked
    IN IF reply.exc
       THEN Result(asked, [status |-> "error", error |-> "request failed"], FALSE)
       ELSE IF reply.status_code # 200
       THEN Result(asked, [status |-> "error", error |-> "HTTP error"], FALSE)
       ELSE IF ~parsed.ok
       THEN Result(asked, [status |-> "error", error |-> "Invalid validator reply",
                           raw |-> content], FALSE)
       ELSE IF ~parsed.isobj
       THEN Result(asked, [status |-> "error", error |-> "object has no attribute 'get'"], FALSE)
       ELSE Result(told,
                   [status |-> "success", approved |-> approved, reasons |-> reasons,
                    applied_revision |-> apply],
                   apply)

(***************************************************************************)
(* Tool calls and their dispatch.                                          *)
(* A tool call is [function |-> [name, arguments]]; arguments is           *)
(* [form, kw]: a dict ("dict"), a string holding a JSON object ("json"),   *)
(* or a string that does not decode ("text").                              *)
(***************************************************************************)
ToolCall(name, arguments) == [function |-> [name |-> name, arguments |-> arguments]]
Args(kw) == [form |-> "dict", kw |-> kw]
JsonArgs(kw) == [form |-> "json", kw |-> kw]
TextArgs == [form |-> "text", kw |-> EmptyDict]

available_functions ==
    {"execute_robot_command", "update_kitchen_state", "mark_task_complete",
     "get_current_plan", "create_plan", "review_plan"}

\* if isinstance(function_args, str): try json.loads, else leave it
DecodeArgs(function_args) ==
    IF function_args.form = "json" THEN [function_args EXCEPT !.form = "dict"]
    ELSE function_args

\* parameter names of each handler: required, and all
Required(name) ==
    CASE name = "execute_robot_command" -> {"language_instruction"}
      [] name = "mark_task_complete" -> {"task_id"}
      [] name = "create_plan" -> {"tasks"}
      [] OTHER -> {}

Accepted(name) ==
    CASE name = "execute_robot_command" -> {"language_instruction", "use_angle_stop"}
      [] name = "update_kitchen_state" -> {"state_updates"}
      [] name = "mark_task_complete" -> {"task_id"}
      [] name = "create_plan" -> {"tasks"}
      [] name = "review_plan" -> {"instructions"}
      [] OTHER -> {}

NoStateUpdates == [isnone |-> TRUE, isdict |-> FALSE, d |-> EmptyDict]

\* variant of Call that drops argument names the handler does not have
Call_ignores_extra_names(self, function_name, function_args, enabled, env) ==
    LET kw == function_args.kw
    IN IF function_args.form # "dict"
       THEN Result(self, [status |-> "error",
                          error |-> "argument after ** must be a mapping, not str"], FALSE)
       ELSE IF ~(Required(function_name) \subseteq DOMAIN kw)
       THEN Result(self, [status |-> "error",
                          error |-> "missing required positional argument"], FALSE)
       ELSE CASE function_name = "execute_robot_command" ->
                    execute_robot_command(self, kw.language_instruction, enabled, env.outcome)
              [] function_name = "update_kitchen_state" ->
                    update_kitchen_state(self, IF "state_updates" \in DOMAIN kw
                                               THEN kw.state_updates ELSE NoStateUpdates)
              [] function_name = "mark_task_complete" -> mark_task_complete(self, kw.task_id)
              [] function_name = "get_current_plan" -> get_current_plan(self)
              [] function_name = "create_plan" -> create_plan(self, kw.tasks)
              [] function_name = "review_plan" -> review_plan(self, env.reply)

\* self.available_functions[function_name](**function_args); env holds what
\* the validator and the actuator answer if they are asked
Call(self, function_name, function_args, enabled, env) ==
    LET kw == function_args.kw
    IN IF function_args.form # "dict"
       THEN Result(self, [status |-> "error",
                          error |-> "argument after ** must be a mapping, not str"], FALSE)
       ELSE IF ~(DOMAIN kw \subseteq Accepted(function_name))
       THEN Result(self, [status |-> "error",
                          error |-> "got an unexpected keyword argument"], FALSE)
       ELSE IF ~(Required(function_name) \subseteq DOMAIN kw)
       THEN Result(self, [status |-> "error",
                          error |-> "missing required positional argument"], FALSE)
       ELSE CASE function_name = "execute_robot_command" ->
                    execute_robot_command(self, kw.language_instruction, enabled, env.outcome)
              [] function_name = "update_kitchen_state" ->
                    update_kitchen_state(self, IF "state_updates" \in DOMAIN kw
                                               THEN kw.state_updates ELSE NoStateUpdates)
              [] function_name = "mark_task_complete" -> mark_task_complete(self, kw.task_id)
              [] function_name = "get_current_plan" -> get_current_plan(self)
              [] function_name = "create_plan" -> create_plan(self, kw.tasks)
              [] function_name = "review_plan" -> review_plan(self, env.reply)

\* variant of UnknownMessage that leaves the name out
UnknownMessage_generic(function_name) == "Unknown function"

\* f"Unknown function: {function_name}"
UnknownMessage(function_name) ==
    CASE function_name = "get_robot_status" -> "Unknown function: get_robot_status"
      [] OTHER -> "Unknown function: <name>"

UnknownResult(self, function_name) ==
    Result(self, [status |-> "error", error |-> UnknownMessage(function_name)], FALSE)

\* f"call_{i}"
CallId(i) == <<"call_0", "call_1", "call_2", "call_3", "call_4", "call_5">>[i + 1]

\* variant of SyntheticRecord without the assistant message
SyntheticRecord_tool_only(review_payload, tl, ks) ==
    <<[role |-> "tool", tool_call_id |-> "call_review_autoguard", name |-> "review_plan",
       content |-> JsonDumps(review_payload, tl, ks)]>>

\* the record of a review the guard invoked
SyntheticRecord(review_payload, tl, ks) ==
    <<[role |-> "assistant", content |-> Text(""),
       tool_calls |-> <<ToolCall("review_plan", Args(EmptyDict))>>],
      [role |-> "tool", tool_call_id |-> "call_review_autoguard", name |-> "review_plan",
       content |-> JsonDumps(review_payload, tl, ks)]>>

\* does the guard stop this call
GuardFires(self, function_name) ==
    function_name = "execute_robot_command" /\ ~self.plan_approved

\* variant of DispatchMain that goes on to the call once the review approved
DispatchMain_falls_through(self, tool_call, enabled, env) ==
    LET function_name == tool_call.function.name
        function_args == DecodeArgs(tool_call.function.arguments)
    IN IF function_name \in available_functions
       THEN IF GuardFires(self, function_name)
            THEN LET r == review_plan(self, env.reply)
                     recorded == [r.self EXCEPT !.conversation_history =
                                     @ \o SyntheticRecord(r.ret, r.self.task_list,
                                                          r.self.kitchen_state)]
                 IN IF recorded.plan_approved
                    THEN Call(recorded, function_name, function_args, enabled, env)
                    ELSE Result(recorded, r.ret, r.replaced)
            ELSE Call(self, function_name, function_args, enabled, env)
       ELSE UnknownResult(self, function_name)

\* variant of DispatchMain whose record of the review takes the place of the
\* last message of the history
DispatchMain_overwrites(self, tool_call, enabled, env) ==
    LET function_name == tool_call.function.name
        function_args == DecodeArgs(tool_call.function.arguments)
    IN IF function_name \in available_functions
       THEN IF GuardFires(self, function_name)
            THEN LET r == review_plan(self, env.reply)
                 IN Result([r.self EXCEPT !.conversation_history =
                               SubSeq(@, 1, Len(@) - 1) \o SyntheticRecord(r.ret, r.self.task_list, r.self.kitchen_state)],
                           r.ret, r.replaced)
            ELSE Call(self, function_name, function_args, enabled, env)
       ELSE UnknownResult(self, function_name)

\* main loop: the body of `for i, tool_call in enumerate(tool_calls_buffer)`
DispatchMain(self, tool_call, enabled, env) ==
    LET function_name == tool_call.function.name
        function_args == DecodeArgs(tool_call.function.arguments)
    IN IF function_name \in available_functions
       THEN IF GuardFires(self, function_name)
            THEN LET r == review_plan(self, env.reply)
                 IN Result([r.self EXCEPT !.conversation_history =
                               @ \o SyntheticRecord(r.ret, r.self.task_list, r.self.kitchen_state)],
                           r.ret, r.replaced)
            ELSE Call(self, function_name, function_args, enabled, env)
       ELSE UnknownResult(self, function_name)

\* fallback request: the body of `for i, tool_call in enumerate(tool_calls)`
DispatchFallback(self, tool_call, enabled, env) ==
    LET function_name == tool_call.function.name
        function_args == DecodeArgs(tool_call.function.arguments)
    IN IF function_name \in available_functions
       THEN Call(self, function_name, function_args, enabled, env)
       ELSE UnknownResult(self, function_name)

\* variant of BatchRecord that puts the tool messages ahead of the assistant
\* message
BatchRecord_results_first(content, tool_calls, tool_results, tl, ks) ==
    [i \in 1..(IF Len(tool_calls) < Len(tool_results)
               THEN Len(tool_calls) ELSE Len(tool_results)) |->
        [role |-> "tool", tool_call_id |-> CallId(i - 1), name |-> tool_calls[i].function.name,
         content |-> JsonDumps(tool_results[i], tl, ks)]]
    \o <<[role |-> "assistant", content |-> Text(content), tool_calls |-> tool_calls]>>

\* the assistant message and the tool messages appended after a batch
BatchRecord(content, tool_calls, tool_results, tl, ks) ==
    <<[role |-> "assistant", content |-> Text(content), tool_calls |-> tool_calls]>>
    \o [i \in 1..(IF Len(tool_calls) < Len(tool_results)
                  THEN Len(tool_calls) ELSE Len(tool_results)) |->
          [role |-> "tool", tool_call_id |-> CallId(i - 1), name |-> tool_calls[i].function.name,
           content |-> JsonDumps(tool_results[i], tl, ks)]]

(***************************************************************************)
(* Inputs: what the user, the model service, the validator and the         *)
(* actuator may supply.                                                    *)
(***************************************************************************)
Paraphrase == "put some salt into the gray recipient"

\* language_instruction values that are not strings are written as tokens:
\* the JSON number 5 and the JSON null
NotSliceable == {"<int 5>", "<None>"}
Instructions == {PutSalt, Paraphrase}

SpecPlan == ListOf(<<DictEntry([title |-> S(OpenCabinet)],
                               "{'title': 'Open the left cabinet door'}"),
                     StrEntry(PutSalt)>>)
PlanInputs == {SpecPlan}

RevisedSteps == <<DictEntry([title |-> S("Take off the lid")], "{'title': 'Take off the lid'}"),
                  DictEntry([description |-> S(PutSalt)],
                            "{'description': 'Put salt in the gray recipient'}")>>

Approve == [approved |-> B(TRUE), reasons |-> ListOf(<<>>)]
Reject == [approved |-> B(FALSE), reasons |-> ListOf(<<"lid still on">>)]
RejectRevised == [approved |-> B(FALSE), reasons |-> ListOf(<<"lid still on">>),
                  revised_plan |-> ListOf(RevisedSteps)]

Http(status_code, body) == [exc |-> FALSE, status_code |-> status_code, body |-> body]
Raised == [exc |-> TRUE, status_code |-> 0, body |-> [kind |-> "none", message |-> EmptyDict]]
ChatBody(message) == [kind |-> "chat", message |-> message]
TextBody(content) == [kind |-> "text", message |-> [content |-> content]]
Verdict(text) == Http(200, ChatBody([content |-> text]))

\* validator replies: approved, approved inside prose, rejected, rejected
\* with a revision, two objects in prose (not parseable), prose without an
\* object (not parseable), and a non-200 response
ValidatorReplies ==
    {Verdict(<<LB, Body(Approve), RB>>),
     Verdict(<<Prose, LB, Body(Approve), RB, Prose, WS>>),
     Verdict(<<LB, Body(Reject), RB>>),
     Verdict(<<LB, Body(RejectRevised), RB>>),
     Verdict(<<LB, Body(Approve), RB, Prose, LB, Body(Approve), RB>>),
     Verdict(<<Prose>>),
     Http(500, TextBody(<<Prose>>))}

\* tool calls the model service requests
ToolCalls ==
    {ToolCall("execute_robot_command", Args([language_instruction |-> i])) : i \in Instructions}
    \cup {ToolCall("create_plan", Args([tasks |-> t])) : t \in PlanInputs}
    \cup {ToolCall("review_plan", JsonArgs(EmptyDict)),
          ToolCall("mark_task_complete", Args([task_id |-> 1])),
          ToolCall("get_robot_status", Args(EmptyDict))}

\* the batches of at most n tool calls
Batches(tools, n) ==
    UNION {[1..k -> tools] : k \in 1..(IF n < MaxBatch THEN n ELSE MaxBatch)}

\* replies of the model service to a request of the control loop: a failed
\* request, a non-200 response, text, text that is not JSON, nothing, and
\* tool calls
ModelReplies(tools, n) ==
    {Raised, Http(500, TextBody("")),
     Http(200, ChatBody([content |-> "Done."])),
     Http(200, TextBody("Done.")),
     Http(200, ChatBody([content |-> ""])),
     Http(200, ChatBody(EmptyDict))}
    \cup {Http(200, ChatBody([content |-> "", tool_calls |-> b])) : b \in Batches(tools, n)}

SendOutcomes == {"ack", "refused"}

\* plans for the plan manager: entries that fall back to their only value
\* and to their printed form, and entries whose candidate fields are empty
AltPlan == ListOf(<<DictEntry([step_text |-> S(CloseCabinet)],
                              "{'step_text': 'Close the left cabinet door'}"),
                    DictEntry([note |-> S("x"), more |-> S("y")], "{'note': 'x', 'more': 'y'}"),
                    DictEntry([title |-> S(""), description |-> S(PutSalt)],
                              "{'title': '', 'description': 'Put salt in the gray recipient'}")>>)
BlankPlan == ListOf(<<DictEntry([title |-> S("")], "{'title': ''}"),
                      DictEntry([task |-> S(""), note |-> S("x")], "{'task': '', 'note': 'x'}")>>)

\* verdicts: approved with a revision, rejected with a revision whose step
\* has an empty title, and approved given as a non-empty string; PlanReplies
\* adds a reply that is valid JSON but not an object
ApproveRevised == [approved |-> B(TRUE), reasons |-> ListOf(<<>>),
                   revised_plan |-> ListOf(RevisedSteps)]
RejectRevisedBlank == [approved |-> B(FALSE), reasons |-> ListOf(<<"unclear step">>),
                       revised_plan |-> ListOf(<<DictEntry([title |-> S("")], "{'title': ''}")>>)]
ApproveAsText == [approved |-> S("yes"), reasons |-> ListOf(<<>>)]

PlanReplies ==
    {Verdict(<<LB, Body(Approve), RB>>),
     Verdict(<<LB, Body(ApproveRevised), RB>>),
     Verdict(<<LB, Body(ApproveAsText), RB>>),
     Verdict(<<LB, Body(Reject), RB>>),
     Verdict(<<LB, Body(RejectRevised), RB>>),
     Verdict(<<LB, Body(RejectRevisedBlank), RB>>),
     Verdict(<<Scalar>>)}

TaskIds == {2, 4}

PlanToolCalls ==
    {ToolCall("create_plan", Args([tasks |-> t])) : t \in {SpecPlan, AltPlan, BlankPlan, NoList}}
    \cup {ToolCall("mark_task_complete", Args([task_id |-> id])) : id \in TaskIds}
    \cup {ToolCall("review_plan", Args(EmptyDict)),
          ToolCall("execute_robot_command", Args([language_instruction |-> PutSalt]))}

\* arguments of update_kitchen_state: a dict, None, and a value of another type
Mapping(d) == [isnone |-> FALSE, isdict |-> TRUE, d |-> d]
NotMapping == [isnone |-> FALSE, isdict |-> FALSE, d |-> EmptyDict]

Partials ==
    {[salt_added |-> B(FALSE)],
     [lid_on_gray_recipient |-> B(FALSE), salt_added |-> B(TRUE), blender |-> S("on")]}

StateReplies ==
    {Verdict(<<LB, Body(Approve), RB>>),
     Verdict(<<LB, Body(RejectRevised), RB>>),
     Verdict(<<Prose>>)}

StateToolCalls ==
    {ToolCall("update_kitchen_state", Args([state_updates |-> Mapping(d)])) : d \in Partials}
    \cup {ToolCall("update_kitchen_state", Args([state_updates |-> NotMapping])),
          ToolCall("update_kitchen_state", Args(EmptyDict)),
          ToolCall("execute_robot_command", Args([language_instruction |-> PutSalt])),
          ToolCall("execute_robot_command", Args([language_instruction |-> Paraphrase])),
          ToolCall("create_plan", Args([tasks |-> SpecPlan])),
          ToolCall("mark_task_complete", Args([task_id |-> 1])),
          ToolCall("get_current_plan", Args(EmptyDict)),
          ToolCall("review_plan", Args(EmptyDict))}

\* tool calls for the control loop's own bookkeeping: an unregistered name,
\* a call the guard stops, a plan, arguments that are a string that does
\* not decode, a missing and an unexpected argument name, and an
\* instruction that is a number
LoopToolCalls ==
    {ToolCall("get_robot_status", Args(EmptyDict)),
     ToolCall("execute_robot_command", Args([language_instruction |-> PutSalt])),
     ToolCall("create_plan", Args([tasks |-> SpecPlan])),
     ToolCall("mark_task_complete", TextArgs),
     ToolCall("create_plan", Args(EmptyDict)),
     ToolCall("get_current_plan", Args([verbose |-> B(TRUE)])),
     ToolCall("execute_robot_command", Args([language_instruction |-> "<int 5>"]))}

LoopReplies ==
    {Verdict(<<LB, Body(Approve), RB>>),
     Verdict(<<LB, Body(Reject), RB>>)}

\* a model service that asks for one more tool call in every reply
StepToolCalls == {ToolCall("get_current_plan", Args(EmptyDict))}

\* tool calls that reach the actuator
RobotToolCalls ==
    {ToolCall("execute_robot_command", Args([language_instruction |-> PutSalt])),
     ToolCall("execute_robot_command", Args([language_instruction |-> TakeOffLid])),
     ToolCall("review_plan", Args(EmptyDict))}

\* tool calls of a session driven from the front end
FrontToolCalls ==
    {ToolCall("create_plan", Args([tasks |-> SpecPlan])),
     ToolCall("update_kitchen_state", Args([state_updates |-> Mapping([salt_added |-> B(TRUE)])])),
     ToolCall("execute_robot_command", Args([language_instruction |-> PutSalt]))}

\* verdicts whose fields have to be coerced: no approved key (with a revised
\* plan), approved given as the number 0 with reasons and a revised_plan that
\* are not lists, and a revised_plan that is the empty list
NoApprovedKey == [reasons |-> ListOf(<<"lid still on">>), revised_plan |-> ListOf(RevisedSteps)]
ApprovedZero == [approved |-> I("0"), reasons |-> NoList, revised_plan |-> NoList]
RevisedEmpty == [approved |-> B(FALSE), reasons |-> ListOf(<<"lid still on">>),
                 revised_plan |-> ListOf(<<>>)]

\* replies of the validator to a review request: verdicts, a request that
\* raised, a non-200 response, prose, and JSON that is not an object
ReviewReplies ==
    {Verdict(<<LB, Body(Approve), RB>>),
     Verdict(<<LB, Body(NoApprovedKey), RB>>),
     Verdict(<<LB, Body(ApprovedZero), RB>>),
     Verdict(<<LB, Body(RevisedEmpty), RB>>),
     Raised,
     Http(500, TextBody(<<Prose>>)),
     Verdict(<<Prose>>),
     Verdict(<<Scalar>>)}

ReviewToolCalls ==
    {ToolCall("create_plan", Args([tasks |-> SpecPlan])),
     ToolCall("create_plan", Args([tasks |-> NoList])),
     ToolCall("review_plan", Args(EmptyDict)),
     ToolCall("mark_task_complete", Args([task_id |-> 1])),
     ToolCall("execute_robot_command", Args([language_instruction |-> TakeOffLid]))}

\* tool calls and verdicts of a session in which a plan is created, approved
\* and worked through
ApprovedToolCalls ==
    {ToolCall("create_plan", Args([tasks |-> SpecPlan])),
     ToolCall("create_plan", Args([tasks |-> NoList])),
     ToolCall("review_plan", Args(EmptyDict)),
     ToolCall("mark_task_complete", Args([task_id |-> 1])),
     ToolCall("execute_robot_command", Args([language_instruction |-> PutSalt]))}
ApprovedReplies ==
    {Verdict(<<LB, Body(Approve), RB>>), Verdict(<<LB, Body(RejectRevised), RB>>)}

(***************************************************************************)
(* State.                                                                  *)
(***************************************************************************)
VARIABLES
    conversation_history,   \* self.conversation_history
    task_list,              \* self.task_list
    plan_approved,          \* self.plan_approved
    kitchen_state,          \* self.kitchen_state
    ROBOT_SEND_ENABLED,     \* the global toggle read by send()
    sent,                   \* calls made to send(), in order
    reviews,                \* requests made to the validator
    partials,               \* mappings merged by update_kitchen_state, in order
    pc,                     \* where chat() is: idle, request, dispatch, fallback_request, fallback_dispatch
    step,                   \* _call_gpt_oss: step
    full_content,           \* content of the reply being handled
    tool_calls_buffer,      \* tool calls of the reply being handled
    next_call,              \* index of the tool call the for loop is at
    tool_results,           \* tool_results of the batch so far
    returned,               \* what the last chat() returned
    heard,                  \* what the loop read off the model's last reply
    last,                   \* the last tool call handled: path, call, bot before, outcome
    chats,                  \* chat() calls so far
    others,                 \* chat() calls running in further threads of the front end
    plain,                  \* the bot of gpt-oss-chat-function.py: its fields and its position
    calls                   \* tool calls received so far

vars == <<conversation_history, task_list, plan_approved, kitchen_state, ROBOT_SEND_ENABLED,
          sent, reviews, partials, pc, step, full_content, tool_calls_buffer, next_call, tool_results,
          returned, heard, last, chats, others, plain, calls>>

loopVars == <<step, full_content, tool_calls_buffer, next_call, tool_results>>
botVars == <<conversation_history, task_list, plan_approved, kitchen_state, sent, reviews,
            partials>>

Self == [conversation_history |-> conversation_history, task_list |-> task_list,
         plan_approved |-> plan_approved, kitchen_state |-> kitchen_state,
         sent |-> sent, reviews |-> reviews, partials |-> partials]

SetSelf(self) ==
    /\ conversation_history' = self.conversation_history
    /\ task_list' = self.task_list
    /\ plan_approved' = self.plan_approved
    /\ kitchen_state' = self.kitchen_state
    /\ sent' = self.sent
    /\ reviews' = self.reviews
    /\ partials' = self.partials

SystemPrompt == [role |-> "system", content |-> Text("You are a fully autonomous kitchen assistant.")]

\* what `last` remembers of the bot before a tool call
Snapshot(self) ==
    [plan_approved |-> self.plan_approved, task_list |-> self.task_list,
     kitchen_state |-> self.kitchen_state, nsent |-> Len(self.sent),
     reviews |-> self.reviews, nhistory |-> Len(self.conversation_history)]

NoCall == [path |-> "none", index |-> 0, guarded |-> FALSE, reviewed |-> FALSE,
           final |-> FALSE, prev |-> "", enabled |-> FALSE,
           tool_call |-> ToolCall("", Args(EmptyDict)),
           before |-> [plan_approved |-> FALSE, task_list |-> <<>>,
                       kitchen_state |-> EmptyDict, nsent |-> 0, reviews |-> 0,
                       nhistory |-> 0],
           env |-> [reply |-> Raised, outcome |-> "ack"],
           ret |-> [status |-> ""]]

\* what the loop reads off a reply: whether the request raised, the status
\* code, message.content and message.tool_calls; `at` is the request it
\* answers (main or retry) and nhistory the length of the history then
Heard(at, reply, nhistory) ==
    [at |-> at, exc |-> reply.exc, status_code |-> reply.status_code,
     content |-> MessageOf(reply.body, "content", ""),
     tool_calls |-> MessageOf(reply.body, "tool_calls", <<>>),
     nhistory |-> nhistory]

NoReply == [at |-> "none", exc |-> FALSE, status_code |-> 0, content |-> "",
            tool_calls |-> <<>>, nhistory |-> 0]

\* GPTOSSChatBot.__init__
(***************************************************************************)
(* The plain function-calling bot of gpt-oss-chat-function.py.  It has two  *)
(* handlers, no plan, no guard and no loop: one request, one batch, one     *)
(* follow-up request.  `plain` holds its history, its locals while a batch  *)
(* is handled, and outcomes: what each call of the batch came to.           *)
(***************************************************************************)
\* send(cmd): the socket is always used
plain_send(outcome) ==
    IF outcome = "ack"
    THEN [raised |-> FALSE, resp |-> S("ack")]
    ELSE [raised |-> TRUE, resp |-> S("connection refused")]

plain_execute_robot_command(language_instruction, outcome) ==
    LET r == plain_send(outcome)
    IN IF r.raised
       THEN [status |-> "error", error |-> r.resp.txt,
             instruction |-> language_instruction, use_angle_stop |-> TRUE]
       ELSE [status |-> "success", result |-> r.resp,
             instruction |-> language_instruction, use_angle_stop |-> TRUE]

plain_get_robot_status(outcome) ==
    LET r == plain_send(outcome)
    IN IF r.raised
       THEN [status |-> "error", error |-> r.resp.txt]
       ELSE [status |-> "success", robot_status |-> r.resp]

plain_available_functions == {"execute_robot_command", "get_robot_status"}

PlainRequired(name) ==
    IF name = "execute_robot_command" THEN {"language_instruction"} ELSE {}

PlainAccepted(name) ==
    IF name = "execute_robot_command"
    THEN {"language_instruction", "actions_to_execute", "use_angle_stop"}
    ELSE {}

\* self.available_functions[function_name](**function_args) inside its try;
\* the arguments are passed as they came, a string is not decoded
PlainCall(function_name, function_args, outcome) ==
    LET kw == function_args.kw
    IN IF function_args.form # "dict"
       THEN [status |-> "error", error |-> "argument after ** must be a mapping, not str"]
       ELSE IF ~(DOMAIN kw \subseteq PlainAccepted(function_name))
       THEN [status |-> "error", error |-> "got an unexpected keyword argument"]
       ELSE IF ~(PlainRequired(function_name) \subseteq DOMAIN kw)
       THEN [status |-> "error", error |-> "missing required positional argument"]
       ELSE IF function_name = "execute_robot_command"
       THEN plain_execute_robot_command(kw.language_instruction, outcome)
       ELSE plain_get_robot_status(outcome)

\* zip(tool_calls, tool_results): pairs by position, as long as both last
PlainZip(calls_, results) ==
    [i \in 1..(IF Len(calls_) < Len(results)
               THEN Len(calls_) ELSE Len(results)) |->
        <<calls_[i], results[i]>>]

\* the assistant message and the tool messages appended after the batch
PlainBatchRecord(content, calls_, results) ==
    LET pairs == PlainZip(calls_, results)
    IN <<[role |-> "assistant", content |-> Text(content), tool_calls |-> calls_]>>
       \o [i \in 1..Len(pairs) |->
             [role |-> "tool", tool_call_id |-> CallId(i - 1),
              name |-> pairs[i][1].function.name,
              content |-> [json |-> pairs[i][2]]]]

\* tool calls the model service requests of the plain bot: its two
\* functions, a function it does not have, and arguments that are a string
PlainToolCalls ==
    {ToolCall("execute_robot_command", Args([language_instruction |-> OpenCabinet])),
     ToolCall("get_robot_status", Args(EmptyDict)),
     ToolCall("create_plan", Args([tasks |-> SpecPlan])),
     ToolCall("execute_robot_command", TextArgs)}

PlainReplies ==
    {Raised, Http(500, TextBody("")),
     Http(200, ChatBody([content |-> "Done."])),
     Http(200, ChatBody(EmptyDict))}
    \cup {Http(200, ChatBody([content |-> "On it.", tool_calls |-> b])) :
             b \in Batches(PlainToolCalls, MaxBatch)}

\* replies to the follow-up request
PlainFollowUps ==
    {Raised, Http(200, ChatBody([content |-> "Done."])), Http(200, ChatBody(EmptyDict))}

PlainSystemPrompt ==
    [role |-> "system", content |-> Text("You are a kitchen assistant helping to make a pineapple smoothie.")]

PlainInit ==
    [conversation_history |-> <<PlainSystemPrompt>>, pc |-> "idle", content |-> "",
     tool_calls |-> <<>>, next_call |-> 0, tool_results |-> <<>>, outcomes |-> <<>>,
     returned |-> "none", chats |-> 0]

\* everything but the plain bot
uiVars == <<conversation_history, task_list, plan_approved, kitchen_state, ROBOT_SEND_ENABLED,
            sent, reviews, partials, pc, step, full_content, tool_calls_buffer, next_call,
            tool_results, returned, heard, last, chats, others, calls>>

\* chat(user_message) up to the request
PlainChat ==
    /\ plain.pc = "idle"
    /\ plain.chats < MaxChats
    /\ plain' = [plain EXCEPT !.chats = @ + 1,
                              !.conversation_history =
                                  Append(@, [role |-> "user",
                                             content |-> Text("open the cabinet")]),
                              !.pc = "request",
                              !.returned = "none"]
    /\ UNCHANGED uiVars

\* _call_gpt_oss from the request to the handling of the reply
PlainRequest ==
    /\ plain.pc = "request"
    /\ \E reply \in PlainReplies :
          LET content == MessageOf(reply.body, "content", "")
              tool_calls == MessageOf(reply.body, "tool_calls", <<>>)
          IN plain' =
                IF reply.exc
                THEN [plain EXCEPT !.pc = "idle", !.returned = "Error calling GPT-OSS"]
                ELSE IF reply.status_code # 200
                THEN [plain EXCEPT !.pc = "idle", !.returned = "HTTP Error"]
                ELSE IF tool_calls # <<>>
                THEN [plain EXCEPT !.pc = "tools", !.content = content,
                                   !.tool_calls = tool_calls, !.next_call = 1,
                                   !.tool_results = <<>>, !.outcomes = <<>>]
                ELSE IF content # ""
                THEN [plain EXCEPT !.pc = "idle", !.returned = content,
                                   !.conversation_history =
                                       Append(@, [role |-> "assistant",
                                                  content |-> Text(content)])]
                ELSE [plain EXCEPT !.pc = "idle",
                                   !.returned = "I didn't understand that. Can you try again?"]
    /\ UNCHANGED uiVars

\* one pass of `for tool_call in tool_calls`: a registered function's result
\* or error is appended to tool_results, for any other name nothing is
PlainExecute ==
    /\ plain.pc = "tools"
    /\ plain.next_call <= Len(plain.tool_calls)
    /\ LET tool_call == plain.tool_calls[plain.next_call]
           function_name == tool_call.function.name
       IN IF function_name \in plain_available_functions
          THEN \E outcome \in SendOutcomes :
                  LET result == PlainCall(function_name, tool_call.function.arguments, outcome)
                  IN plain' = [plain EXCEPT !.tool_results = Append(@, result),
                                            !.outcomes = Append(@, [handled |-> TRUE,
                                                                    ret |-> result]),
                                            !.next_call = @ + 1]
          ELSE plain' = [plain EXCEPT !.outcomes = Append(@, [handled |-> FALSE,
                                                              ret |-> [status |-> ""]]),
                                      !.next_call = @ + 1]
    /\ UNCHANGED uiVars

\* after the for loop: the history update, the follow-up request and the return
PlainRecord ==
    /\ plain.pc = "tools"
    /\ plain.next_call > Len(plain.tool_calls)
    /\ \E reply \in PlainFollowUps :
          LET recorded == plain.conversation_history
                          \o PlainBatchRecord(plain.content, plain.tool_calls,
                                              plain.tool_results)
              follow_up_content == MessageOf(reply.body, "content", "")
              done == [plain EXCEPT !.pc = "idle", !.content = "", !.tool_calls = <<>>,
                                    !.next_call = 0, !.tool_results = <<>>]
          IN plain' =
                IF reply.exc
                THEN [done EXCEPT !.conversation_history = recorded,
                                  !.returned = "Error calling GPT-OSS"]
                ELSE IF follow_up_content # ""
                THEN [done EXCEPT !.conversation_history =
                                      Append(recorded, [role |-> "assistant",
                                                        content |-> Text(follow_up_content)]),
                                  !.returned = follow_up_content]
                ELSE \* the summary f"I executed {len(tool_results)} action(s) for you!"
                     [done EXCEPT !.conversation_history = recorded,
                                  !.returned = "I executed N action(s) for you!"]
    /\ UNCHANGED uiVars

Init ==
    /\ conversation_history = <<SystemPrompt>>
    /\ task_list = <<>>
    /\ plan_approved = FALSE
    /\ kitchen_state = [cabinet_open |-> B(FALSE), lid_on_gray_recipient |-> B(TRUE),
                        pineapple_in_gray_recipient |-> B(FALSE), salt_added |-> B(FALSE)]
    /\ ROBOT_SEND_ENABLED = FALSE
    /\ sent = <<>>
    /\ reviews = 0
    /\ partials = <<>>
    /\ pc = "idle"
    /\ step = 0
    /\ full_content = ""
    /\ tool_calls_buffer = <<>>
    /\ next_call = 0
    /\ tool_results = <<>>
    /\ returned = "none"
    /\ heard = NoReply
    /\ last = NoCall
    /\ chats = 0
    /\ others = 0
    /\ plain = PlainInit
    /\ calls = 0

\* KitchenAssistantUI._on_robot_toggle
OnRobotToggle ==
    /\ ROBOT_SEND_ENABLED' = ~ROBOT_SEND_ENABLED
    /\ UNCHANGED <<botVars, loopVars, pc, returned, heard, last, chats, others, plain, calls>>

\* chat(user_message), up to the first request of _call_gpt_oss
Chat ==
    /\ pc = "idle"
    /\ chats < MaxChats
    /\ calls < MaxCalls
    /\ chats' = chats + 1
    /\ conversation_history' =
          Append(conversation_history, [role |-> "user", content |-> Text("make a smoothie")])
    /\ step' = 0
    /\ pc' = "request"
    /\ returned' = "none"
    /\ heard' = NoReply
    /\ UNCHANGED <<task_list, plan_approved, kitchen_state, ROBOT_SEND_ENABLED, sent, reviews,
                   partials, full_content, tool_calls_buffer, next_call, tool_results, last,
                   others, plain, calls>>

\* chat() returns text
Return(text) ==
    /\ pc' = "idle"
    /\ returned' = text

\* a reply with tool calls starts the for loop over them
StartBatch(content, tool_calls, where) ==
    /\ pc' = where
    /\ full_content' = content
    /\ tool_calls_buffer' = tool_calls
    /\ next_call' = 1
    /\ tool_results' = <<>>
    /\ calls' = calls + Len(tool_calls)

\* variant of HandleReply that goes on to the next iteration after a text reply
HandleReply_keeps_going(reply) ==
    LET content == MessageOf(reply.body, "content", "")
        tool_calls == MessageOf(reply.body, "tool_calls", <<>>)
    IN IF reply.exc
       THEN /\ Return("Error calling GPT-OSS")
            /\ UNCHANGED <<conversation_history, full_content, tool_calls_buffer,
                           next_call, tool_results, calls>>
       ELSE IF reply.status_code # 200
       THEN /\ Return("HTTP Error")
            /\ UNCHANGED <<conversation_history, full_content, tool_calls_buffer,
                           next_call, tool_results, calls>>
       ELSE IF tool_calls # <<>>
       THEN /\ StartBatch(content, tool_calls, "dispatch")
            /\ UNCHANGED <<conversation_history, returned>>
       ELSE IF content # ""
       THEN /\ conversation_history' =
                  Append(conversation_history,
                         [role |-> "assistant", content |-> Text(content)])
            /\ UNCHANGED <<pc, returned, full_content, tool_calls_buffer, next_call,
                           tool_results, calls>>
       ELSE /\ pc' = "fallback_request"
            /\ UNCHANGED <<conversation_history, full_content, tool_calls_buffer,
                           next_call, tool_results, calls, returned>>

\* variant of HandleReply that makes the retry request after a non-200 response
HandleReply_retries(reply) ==
    LET content == MessageOf(reply.body, "content", "")
        tool_calls == MessageOf(reply.body, "tool_calls", <<>>)
    IN IF reply.exc
       THEN /\ Return("Error calling GPT-OSS")
            /\ UNCHANGED <<conversation_history, full_content, tool_calls_buffer,
                           next_call, tool_results, calls>>
       ELSE IF reply.status_code # 200
       THEN /\ pc' = "fallback_request"
            /\ UNCHANGED <<conversation_history, full_content, tool_calls_buffer,
                           next_call, tool_results, calls, returned>>
       ELSE IF tool_calls # <<>>
       THEN /\ StartBatch(content, tool_calls, "dispatch")
            /\ UNCHANGED <<conversation_history, returned>>
       ELSE IF content # ""
       THEN /\ conversation_history' =
                  Append(conversation_history,
                         [role |-> "assistant", content |-> Text(content)])
            /\ Return(content)
            /\ UNCHANGED <<full_content, tool_calls_buffer, next_call, tool_results, calls>>
       ELSE /\ pc' = "fallback_request"
            /\ UNCHANGED <<conversation_history, full_content, tool_calls_buffer,
                           next_call, tool_results, calls, returned>>

\* the handling of the reply to the request of one iteration
HandleReply(reply) ==
    LET content == MessageOf(reply.body, "content", "")
        tool_calls == MessageOf(reply.body, "tool_calls", <<>>)
    IN IF reply.exc
       THEN /\ Return("Error calling GPT-OSS")
            /\ UNCHANGED <<conversation_history, full_content, tool_calls_buffer,
                           next_call, tool_results, calls>>
       ELSE IF reply.status_code # 200
       THEN /\ Return("HTTP Error")
            /\ UNCHANGED <<conversation_history, full_content, tool_calls_buffer,
                           next_call, tool_results, calls>>
       ELSE IF tool_calls # <<>>
       THEN /\ StartBatch(content, tool_calls, "dispatch")
            /\ UNCHANGED <<conversation_history, returned>>
       ELSE IF content # ""
       THEN /\ conversation_history' =
                  Append(conversation_history,
                         [role |-> "assistant", content |-> Text(content)])
            /\ Return(content)
            /\ UNCHANGED <<full_content, tool_calls_buffer, next_call, tool_results, calls>>
       ELSE /\ pc' = "fallback_request"
            /\ UNCHANGED <<conversation_history, full_content, tool_calls_buffer,
                           next_call, tool_results, calls, returned>>

\* variant of RequestOf that ends with an error when the bound is exhausted
RequestOf_raises_at_bound(tools, n) ==
    /\ pc = "request"
    /\ IF step < max_steps
       THEN /\ step' = step + 1
            /\ \E reply \in ModelReplies(tools, n) :
                  /\ HandleReply(reply)
                  /\ heard' = Heard("main", reply, Len(conversation_history))
       ELSE /\ Return("Error calling GPT-OSS")
            /\ UNCHANGED <<conversation_history, loopVars, calls, heard>>
    /\ UNCHANGED <<task_list, plan_approved, kitchen_state, ROBOT_SEND_ENABLED, sent, reviews,
                   partials, last, chats, others, plain>>

\* one iteration of `while step < max_steps`, from the loop head to the
\* handling of the model's reply; when the bound is exhausted chat() returns
RequestOf(tools, n) ==
    /\ pc = "request"
    /\ IF step < max_steps
       THEN /\ step' = step + 1
            /\ \E reply \in ModelReplies(tools, n) :
                  /\ HandleReply(reply)
                  /\ heard' = Heard("main", reply, Len(conversation_history))
       ELSE /\ Return("I executed many steps but reached the maximum step limit.")
            /\ UNCHANGED <<conversation_history, loopVars, calls, heard>>
    /\ UNCHANGED <<task_list, plan_approved, kitchen_state, ROBOT_SEND_ENABLED, sent, reviews,
                   partials, last, chats, others, plain>>

\* the iteration when the model service may ask for MaxCalls tool calls over
\* the whole run
Request(tools) == RequestOf(tools, MaxCalls - calls)

\* variant of FallbackRequestOf that repeats the retry while the reply is empty
FallbackRequestOf_asks_again(tools, n) ==
    /\ pc = "fallback_request"
    /\ \E reply \in ModelReplies(tools, n) :
          /\ heard' = Heard("retry", reply, Len(conversation_history))
          /\ LET content == MessageOf(reply.body, "content", "")
                 tool_calls == MessageOf(reply.body, "tool_calls", <<>>)
             IN IF reply.exc \/ reply.status_code # 200
                THEN /\ Return("I didn't understand that. Can you try again?")
                     /\ UNCHANGED <<conversation_history, full_content, tool_calls_buffer,
                                    next_call, tool_results, calls>>
                ELSE IF tool_calls # <<>>
                THEN /\ StartBatch(content, tool_calls, "fallback_dispatch")
                     /\ UNCHANGED <<conversation_history, returned>>
                ELSE IF content # ""
                THEN /\ conversation_history' =
                           Append(conversation_history,
                                  [role |-> "assistant", content |-> Text(content)])
                     /\ Return(content)
                     /\ UNCHANGED <<full_content, tool_calls_buffer, next_call, tool_results, calls>>
                ELSE /\ UNCHANGED <<pc, returned, conversation_history, full_content,
                                    tool_calls_buffer, next_call, tool_results, calls>>
    /\ UNCHANGED <<task_list, plan_approved, kitchen_state, ROBOT_SEND_ENABLED, sent, reviews,
                   partials, step, last, chats, others, plain>>

\* the second request, made when the reply had neither text nor tool calls
FallbackRequestOf(tools, n) ==
    /\ pc = "fallback_request"
    /\ \E reply \in ModelReplies(tools, n) :
          /\ heard' = Heard("retry", reply, Len(conversation_history))
          /\ LET content == MessageOf(reply.body, "content", "")
                 tool_calls == MessageOf(reply.body, "tool_calls", <<>>)
             IN IF reply.exc \/ reply.status_code # 200
                THEN /\ Return("I didn't understand that. Can you try again?")
                     /\ UNCHANGED <<conversation_history, full_content, tool_calls_buffer,
                                    next_call, tool_results, calls>>
                ELSE IF tool_calls # <<>>
                THEN /\ StartBatch(content, tool_calls, "fallback_dispatch")
                     /\ UNCHANGED <<conversation_history, returned>>
                ELSE IF content # ""
                THEN /\ conversation_history' =
                           Append(conversation_history,
                                  [role |-> "assistant", content |-> Text(content)])
                     /\ Return(content)
                     /\ UNCHANGED <<full_content, tool_calls_buffer, next_call, tool_results, calls>>
                ELSE /\ Return("I didn't understand that. Can you try again?")
                     /\ UNCHANGED <<conversation_history, full_content, tool_calls_buffer,
                                    next_call, tool_results, calls>>
    /\ UNCHANGED <<task_list, plan_approved, kitchen_state, ROBOT_SEND_ENABLED, sent, reviews,
                   partials, step, last, chats, others, plain>>

\* the retry under the same bound on tool calls
FallbackRequest(tools) == FallbackRequestOf(tools, MaxCalls - calls)

\* the answers of the validator and the actuator that a call can consume
EnvsFor(tool_call, guarded, enabled, replies) ==
    [reply : IF guarded \/ tool_call.function.name = "review_plan"
             THEN replies ELSE {Raised},
     outcome : IF tool_call.function.name = "execute_robot_command" /\ enabled
               THEN SendOutcomes ELSE {"ack"}]

\* one pass of a for loop over the tool calls; after the last call the
\* assistant message and the tool messages are appended and the while loop
\* continues
Dispatch(path, r, tool_call, guarded, env) ==
    LET results == Append(IF r.replaced THEN FreezeAll(tool_results, task_list)
                          ELSE tool_results,
                          r.ret)
        final == next_call = Len(tool_calls_buffer)
    IN /\ last' = [path |-> path, index |-> next_call, guarded |-> guarded,
                   reviewed |-> r.self.reviews > reviews, final |-> final,
                   prev |-> last.tool_call.function.name, enabled |-> ROBOT_SEND_ENABLED,
                   tool_call |-> tool_call, before |-> Snapshot(Self), env |-> env,
                   ret |-> r.ret]
       /\ IF final
          THEN /\ SetSelf([r.self EXCEPT !.conversation_history =
                              @ \o BatchRecord(full_content, tool_calls_buffer, results,
                                               r.self.task_list, r.self.kitchen_state)])
               /\ pc' = "request"
               /\ full_content' = ""
               /\ tool_calls_buffer' = <<>>
               /\ next_call' = 0
               /\ tool_results' = <<>>
          ELSE /\ SetSelf(r.self)
               /\ next_call' = next_call + 1
               /\ tool_results' = results
               /\ UNCHANGED <<pc, full_content, tool_calls_buffer>>
       /\ UNCHANGED <<ROBOT_SEND_ENABLED, step, returned, heard, chats, others, plain, calls>>

\* the log preview of an execute_robot_command call,
\* function_args.get("language_instruction", "")[:60], is computed ahead of
\* the try: it raises when the arguments are a dict and language_instruction
\* is a value that cannot be sliced
PreviewRaises(tool_call) ==
    /\ tool_call.function.name = "execute_robot_command"
    /\ tool_call.function.arguments.form = "dict"
    /\ "language_instruction" \in DOMAIN tool_call.function.arguments.kw
    /\ tool_call.function.arguments.kw.language_instruction \in NotSliceable

\* an exception raised outside the try of a tool call leaves the for loop
\* and the while loop and chat() returns a message; the results of the batch
\* so far are dropped with the loop's locals
EscapeWith(text) ==
    /\ Return(text)
    /\ full_content' = ""
    /\ tool_calls_buffer' = <<>>
    /\ next_call' = 0
    /\ tool_results' = <<>>
    /\ UNCHANGED <<botVars, ROBOT_SEND_ENABLED, step, heard, last, chats, others, plain, calls>>

\* in the main loop the exception reaches `except Exception as e` at the end
\* of _call_gpt_oss
Escape == EscapeWith("Error calling GPT-OSS")

\* in the fallback request the exception is caught by the try around that
\* request, after which the fixed fallback string is returned
FallbackEscape == EscapeWith("I didn't understand that. Can you try again?")

\* a tool call of the main request
MainDispatch(replies) ==
    /\ pc = "dispatch"
    /\ LET tool_call == tool_calls_buffer[next_call]
           guarded == /\ tool_call.function.name \in available_functions
                      /\ GuardFires(Self, tool_call.function.name)
       IN IF PreviewRaises(tool_call)
          THEN Escape
          ELSE \E env \in EnvsFor(tool_call, guarded, ROBOT_SEND_ENABLED, replies) :
                  Dispatch("main", DispatchMain(Self, tool_call, ROBOT_SEND_ENABLED, env),
                           tool_call, guarded, env)

\* a tool call of the fallback request
FallbackDispatch(replies) ==
    /\ pc = "fallback_dispatch"
    /\ LET tool_call == tool_calls_buffer[next_call]
       IN IF PreviewRaises(tool_call)
          THEN FallbackEscape
          ELSE \E env \in EnvsFor(tool_call, FALSE, ROBOT_SEND_ENABLED, replies) :
                  Dispatch("fallback",
                           DispatchFallback(Self, tool_call, ROBOT_SEND_ENABLED, env),
                           tool_call, FALSE, env)

\* KitchenAssistantUI.send_message while a chat() call is running: the
\* front end starts one more thread, which enters chat() and appends the
\* user's message; chat() is entered at most MaxChats + MaxWorkers - 1 times
SendMessageWhileRunning ==
    /\ pc # "idle"
    /\ others + 1 < MaxWorkers
    /\ chats < MaxChats + MaxWorkers - 1
    /\ others' = others + 1
    /\ chats' = chats + 1
    /\ conversation_history' =
          Append(conversation_history, [role |-> "user", content |-> Text("add more salt")])
    /\ UNCHANGED <<task_list, plan_approved, kitchen_state, ROBOT_SEND_ENABLED, sent, reviews,
                   partials, loopVars, pc, returned, heard, last, plain, calls>>

\* the chat() call of a further thread, for a model service that answers it
\* with text: the text is appended and the call returns
OtherChatReturns ==
    /\ others > 0
    /\ others' = others - 1
    /\ conversation_history' =
          Append(conversation_history, [role |-> "assistant", content |-> Text("Done.")])
    /\ UNCHANGED <<task_list, plan_approved, kitchen_state, ROBOT_SEND_ENABLED, sent, reviews,
                   partials, loopVars, pc, returned, heard, last, chats, plain, calls>>

Next ==
    \/ Chat
    \/ Request(ToolCalls)
    \/ FallbackRequest(ToolCalls)
    \/ MainDispatch(ValidatorReplies)
    \/ FallbackDispatch(ValidatorReplies)

Spec == Init /\ [][Next]_vars

\* the control loop driven through the plan manager and the review
PlanNext ==
    \/ Chat
    \/ Request(PlanToolCalls)
    \/ FallbackRequest(PlanToolCalls)
    \/ MainDispatch(PlanReplies)
    \/ FallbackDispatch(PlanReplies)

PlanSpec == Init /\ [][PlanNext]_vars

\* the control loop driven through the world state store
StateNext ==
    \/ Chat
    \/ Request(StateToolCalls)
    \/ FallbackRequest(StateToolCalls)
    \/ MainDispatch(StateReplies)
    \/ FallbackDispatch(StateReplies)

StateSpec == Init /\ [][StateNext]_vars

\* the control loop with tool calls that are unknown, faulty or guarded
LoopNext ==
    \/ Chat
    \/ Request(LoopToolCalls)
    \/ FallbackRequest(LoopToolCalls)
    \/ MainDispatch(LoopReplies)
    \/ FallbackDispatch(LoopReplies)

LoopSpec == Init /\ [][LoopNext]_vars

\* the control loop against a model service that may answer every request
\* with a tool call, without a bound on the tool calls of the run
StepNext ==
    \/ Chat
    \/ RequestOf(StepToolCalls, 1)
    \/ FallbackRequestOf(StepToolCalls, 1)
    \/ MainDispatch(LoopReplies)
    \/ FallbackDispatch(LoopReplies)

StepSpec == Init /\ [][StepNext]_vars

\* chat() is sequential code and every request it makes has a timeout, so a
\* step of the loop that can be taken is taken
StepLiveSpec == StepSpec /\ WF_vars(StepNext)

\* the control loop with the front end's robot toggle
RobotNext ==
    \/ OnRobotToggle
    \/ Chat
    \/ Request(RobotToolCalls)
    \/ FallbackRequest(RobotToolCalls)
    \/ MainDispatch(LoopReplies)
    \/ FallbackDispatch(LoopReplies)

RobotSpec == Init /\ [][RobotNext]_vars

\* the control loop with a front end that takes messages while chat() runs
FrontNext ==
    \/ Chat
    \/ Request(FrontToolCalls)
    \/ FallbackRequest(FrontToolCalls)
    \/ MainDispatch(LoopReplies)
    \/ FallbackDispatch(LoopReplies)
    \/ SendMessageWhileRunning
    \/ OtherChatReturns

FrontSpec == Init /\ [][FrontNext]_vars

\* the control loop driven through the review and its verdicts
ReviewNext ==
    \/ Chat
    \/ Request(ReviewToolCalls)
    \/ FallbackRequest(ReviewToolCalls)
    \/ MainDispatch(ReviewReplies)
    \/ FallbackDispatch(ReviewReplies)

ReviewSpec == Init /\ [][ReviewNext]_vars

\* the control loop while a plan is created, approved and worked through
ApprovedNext ==
    \/ Chat
    \/ RequestOf(ApprovedToolCalls, MaxPlanCalls - calls)
    \/ FallbackRequestOf(ApprovedToolCalls, MaxPlanCalls - calls)
    \/ MainDispatch(ApprovedReplies)
    \/ FallbackDispatch(ApprovedReplies)

ApprovedSpec == Init /\ [][ApprovedNext]_vars

\* the plain function-calling bot
PlainNext ==
    \/ PlainChat
    \/ PlainRequest
    \/ PlainExecute
    \/ PlainRecord

PlainSpec == Init /\ [][PlainNext]_vars

TypeOK ==
    /\ pc \in {"idle", "request", "dispatch", "fallback_request", "fallback_dispatch"}
    /\ plan_approved \in BOOLEAN
    /\ step \in 0..max_steps
    /\ chats \in 0..(MaxChats + MaxWorkers - 1)
    /\ others \in 0..(MaxWorkers - 1)
    /\ calls \in Nat

(***************************************************************************)
(* Properties.  `last` describes the tool call handled most recently: the  *)
(* predicates below read the claim's case off it.                          *)
(***************************************************************************)
LastName == last.tool_call.function.name
LastArgs == DecodeArgs(last.tool_call.function.arguments)

\* the last tool call asked for execute_robot_command with this instruction
LastExecutes(instruction) ==
    /\ last.path # "none"
    /\ LastName = "execute_robot_command"
    /\ LastArgs.form = "dict"
    /\ DOMAIN LastArgs.kw = {"language_instruction"}
    /\ LastArgs.kw.language_instruction = instruction

SortedCanonical ==
    <<CloseCabinet, OpenCabinet, PickPineapple, PutOnLid, PutSalt, TakeOffLid>>

\* C1: every call of the actuator's send() for an execute_robot_command is
\* made at a moment when plan_approved is true, on the main dispatch and on
\* the dispatch of the empty-reply retry alike.
C1_SendOnlyWhenApproved ==
    \A i \in 1..Len(sent) : sent[i].approved

\* C2: an instruction outside CANONICAL_COMMANDS never reaches send(), on
\* either dispatch path, and whenever execute_robot_command is invoked with
\* it the outcome is status=error with the sorted canonical list in allowed.
C2_NonCanonicalRejected ==
    /\ \A i \in 1..Len(sent) : sent[i].instruction \in CANONICAL_COMMANDS
    /\ \A instruction \in Instructions \ CANONICAL_COMMANDS :
          LastExecutes(instruction) =>
             /\ Len(sent) = last.before.nsent
             /\ ~last.guarded =>
                   /\ last.ret.status = "error"
                   /\ "allowed" \in DOMAIN last.ret
                   /\ last.ret.allowed = SortedCanonical
                   /\ last.ret.instruction = instruction

\* C2 witness: a paraphrased instruction was handed to execute_robot_command
\* while the plan was approved, and was rejected.
C2_Witness ==
    /\ LastExecutes(Paraphrase)
    /\ ~last.guarded
    /\ last.before.plan_approved
    /\ last.ret.status = "error"

\* C3: an execute_robot_command request that directly follows create_plan
\* triggers exactly one review_plan invocation, and no actuator call is made
\* ahead of that review.
C3_OneReviewAfterCreatePlan ==
    (/\ last.path # "none"
     /\ LastName = "execute_robot_command"
     /\ last.prev = "create_plan") =>
        /\ reviews = last.before.reviews + 1
        /\ Len(sent) = last.before.nsent

\* C4: over a run, at most one actuator call is made while plan_approved is
\* false.
C4_AtMostOneUnreviewedSend ==
    Cardinality({i \in 1..Len(sent) : ~sent[i].approved}) <= 1

\* C5: an execute_robot_command request with a non-canonical instruction
\* gets status=error with the allowed list at once: no request goes to the
\* validator and no call to the actuator, whether plan_approved is true or
\* false.
C5_CanonicalCheckFirst ==
    \A instruction \in Instructions \ CANONICAL_COMMANDS :
       LastExecutes(instruction) =>
          /\ reviews = last.before.reviews
          /\ Len(sent) = last.before.nsent
          /\ last.ret.status = "error"
          /\ "allowed" \in DOMAIN last.ret

\* C6: when the guard fires for an execute_robot_command request, the call
\* is not executed in that iteration: execute_robot_command is not invoked
\* for it, so nothing is sent and the outcome recorded for the call is the
\* review's and not an execution's; also when the review has just approved.
C6_GuardDefersCall ==
    last.guarded =>
       /\ Len(sent) = last.before.nsent
       /\ reviews = last.before.reviews + 1
       /\ "instruction" \notin DOMAIN last.ret
       /\ "result" \notin DOMAIN last.ret

\* C6 witness: the guard fired on a canonical instruction and the review it
\* invoked approved the plan.
C6_Witness ==
    /\ LastExecutes(PutSalt)
    /\ last.guarded
    /\ last.ret.status = "success"
    /\ last.ret.approved
    /\ plan_approved

\* positions of the history, past those present before the last tool call,
\* that hold the tool message of a review invoked by the guard
SyntheticAt ==
    {i \in (last.before.nhistory + 1)..Len(conversation_history) :
        /\ conversation_history[i].role = "tool"
        /\ conversation_history[i].tool_call_id = "call_review_autoguard"}

\* C7: each time the guard invokes the review, exactly one synthetic record
\* is appended to the history: an assistant message declaring a review_plan
\* tool call, immediately followed by a tool message named review_plan that
\* carries the review's outcome.
C7_OneSyntheticRecord ==
    last.guarded =>
       /\ Cardinality(SyntheticAt) = 1
       /\ \A i \in SyntheticAt :
             /\ i - 1 > last.before.nhistory
             /\ conversation_history[i - 1].role = "assistant"
             /\ "tool_calls" \in DOMAIN conversation_history[i - 1]
             /\ Len(conversation_history[i - 1].tool_calls) = 1
             /\ conversation_history[i - 1].tool_calls[1].function.name = "review_plan"
             /\ conversation_history[i].name = "review_plan"
             /\ conversation_history[i].content = [json |-> last.ret]

\* C7 witness: the guard fired, the review approved a plan that has tasks, so
\* the review's own plan message precedes the synthetic record.
C7_Witness ==
    /\ last.guarded
    /\ last.ret.status = "success"
    /\ last.ret.approved
    /\ task_list # <<>>
    /\ SyntheticAt # {}

\* C8: after a create_plan call that created a plan, plan_approved is false,
\* whatever it was before.
C8_CreatePlanRevokesApproval ==
    (/\ last.path # "none"
     /\ LastName = "create_plan"
     /\ last.ret.status = "success"
     /\ "created_plan" \in DOMAIN last.ret) => ~plan_approved

\* C8 witness: create_plan created a plan while the previous one was approved.
C8_Witness ==
    /\ last.path # "none"
    /\ LastName = "create_plan"
    /\ last.ret.status = "success"
    /\ last.before.plan_approved
    /\ task_list # <<>>

\* the text is a JSON object, white space around it allowed
IsJsonObject(text) ==
    LET c == Strip(text)
    IN \/ c = <<LB, RB>>
       \/ Len(c) = 3 /\ c[1] = LB /\ c[2].t = "body" /\ c[3] = RB

\* the reply came back with status 200 and its content parses neither
\* directly nor as the text between its first "{" and its last "}"
Unparseable(reply) ==
    /\ ~reply.exc
    /\ reply.status_code = 200
    /\ LET content == Strip(MessageOf(reply.body, "content", <<>>))
           opens == {i \in 1..Len(content) : content[i] = LB}
           closes == {i \in 1..Len(content) : content[i] = RB}
       IN /\ ~IsJsonObject(content)
          /\ content # <<Scalar>>
          /\ \A i \in opens, j \in closes :
                (/\ \A k \in opens : i <= k
                 /\ \A k \in closes : k <= j
                 /\ j > i) => ~IsJsonObject(SubSeq(content, i, j))

\* C9: when the validator's reply cannot be parsed, review_plan returns
\* status=error with the raw text, plan_approved stays as it was (it is not
\* set to true), and an execute_robot_command request that triggered the
\* review is not forwarded to the actuator.
C9_ParseFailureNotApproved ==
    (last.reviewed /\ Unparseable(last.env.reply)) =>
       /\ last.ret.status = "error"
       /\ "raw" \in DOMAIN last.ret
       /\ last.ret.raw = Strip(MessageOf(last.env.reply.body, "content", <<>>))
       /\ plan_approved = last.before.plan_approved
       /\ last.guarded => ~plan_approved /\ Len(sent) = last.before.nsent

\* C9 witness: the guard invoked the review for a canonical instruction and
\* the validator's reply could not be parsed.
C9_Witness ==
    /\ LastExecutes(PutSalt)
    /\ last.guarded
    /\ last.reviewed
    /\ Unparseable(last.env.reply)

\* the verdict a reply carries
VerdictIn(reply) == ParseVerdict(Strip(MessageOf(reply.body, "content", <<>>)))

\* the reply carries a verdict that does not approve and has a revised plan
RejectsWithRevision(reply) ==
    /\ ~reply.exc
    /\ reply.status_code = 200
    /\ VerdictIn(reply).ok
    /\ VerdictIn(reply).isobj
    /\ ~Truthy(Get(VerdictIn(reply).obj, "approved"))
    /\ "revised_plan" \in DOMAIN VerdictIn(reply).obj
    /\ VerdictIn(reply).obj.revised_plan.islist
    /\ VerdictIn(reply).obj.revised_plan.items # <<>>

\* C10: after a verdict with approved=false and a revised plan, the task
\* list is exactly the revised steps in order, with ids 1..n, the titles
\* that create_plan's rule extracts, every done flag false, and
\* plan_approved is false.
C10_RevisionReplacesPlan ==
    (last.reviewed /\ RejectsWithRevision(last.env.reply)) =>
       LET revised == VerdictIn(last.env.reply).obj.revised_plan.items
       IN /\ Len(task_list) = Len(revised)
          /\ \A i \in 1..Len(revised) :
                /\ task_list[i].id = i
                /\ task_list[i].title = PlanTitle(revised[i])
                /\ task_list[i].done = FALSE
          /\ ~plan_approved
          /\ last.ret.applied_revision

\* C10 witness: a rejecting verdict with the two revised steps of the spec's
\* scenario replaced a plan that had tasks.
C10_Witness ==
    /\ last.reviewed
    /\ RejectsWithRevision(last.env.reply)
    /\ last.before.task_list # <<>>
    /\ Len(task_list) = 2
    /\ task_list[1].title = S("Take off the lid")
    /\ task_list[2].title = S(PutSalt)

(***************************************************************************)
(* Plan manager, review verdicts and world state store.                    *)
(***************************************************************************)
\* the reply carries a verdict: a JSON object, read directly or out of prose
HasVerdict(reply) ==
    /\ ~reply.exc
    /\ reply.status_code = 200
    /\ VerdictIn(reply).ok
    /\ VerdictIn(reply).isobj

\* bool(verdict["approved"])
ApprovedIn(reply) == Truthy(Get(VerdictIn(reply).obj, "approved"))

\* the verdict has a revised_plan that is a list with steps in it
RevisionIn(reply) ==
    /\ "revised_plan" \in DOMAIN VerdictIn(reply).obj
    /\ VerdictIn(reply).obj.revised_plan.islist
    /\ VerdictIn(reply).obj.revised_plan.items # <<>>

\* C11: a review whose verdict approves leaves the task list (ids, titles,
\* done flags) exactly as it was and reports no applied revision, also when
\* the verdict carries a non-empty revised_plan.
C11_ApprovedPlanUntouched ==
    (last.reviewed /\ HasVerdict(last.env.reply) /\ ApprovedIn(last.env.reply)) =>
       /\ task_list = last.before.task_list
       /\ ~last.ret.applied_revision

\* C11 witness: a plan with tasks was reviewed and the verdict approved it
\* while carrying a revised plan of other steps.
C11_Witness ==
    /\ last.reviewed
    /\ HasVerdict(last.env.reply)
    /\ ApprovedIn(last.env.reply)
    /\ RevisionIn(last.env.reply)
    /\ last.before.task_list # <<>>
    /\ task_list[1].title # PlanTitle(VerdictIn(last.env.reply).obj.revised_plan.items[1])

\* C12: after a review that obtained a verdict, plan_approved is the
\* verdict's approved value coerced to a boolean, whatever it was before, and
\* the review reports that value; on the main dispatch the guard stops an
\* execute_robot_command request exactly when the recorded flag is false.
C12_FlagFollowsVerdict ==
    /\ (last.reviewed /\ HasVerdict(last.env.reply)) =>
          /\ plan_approved = ApprovedIn(last.env.reply)
          /\ last.ret.approved = ApprovedIn(last.env.reply)
    /\ (last.path = "main" /\ LastName = "execute_robot_command") =>
          (last.guarded <=> ~last.before.plan_approved)

\* C12 witness: the plan was approved and a later verdict that does not
\* approve withdrew the approval.
C12_Witness ==
    /\ last.reviewed
    /\ HasVerdict(last.env.reply)
    /\ ~ApprovedIn(last.env.reply)
    /\ last.before.plan_approved
    /\ ~plan_approved

\* the last tool call was create_plan with a list, with no other argument
LastCreatesPlan ==
    /\ last.path # "none"
    /\ LastName = "create_plan"
    /\ LastArgs.form = "dict"
    /\ DOMAIN LastArgs.kw = {"tasks"}
    /\ LastArgs.kw.tasks.islist

\* C13: create_plan on a list of n entries leaves exactly n tasks, the i-th
\* made from the i-th entry, with ids 1..n and every done flag false; nothing
\* of the previous plan is kept.
C13_CreatePlanReplacesList ==
    LastCreatesPlan =>
       LET tasks == LastArgs.kw.tasks.items
       IN /\ Len(task_list) = Len(tasks)
          /\ \A i \in 1..Len(tasks) :
                /\ task_list[i].id = i
                /\ task_list[i].done = FALSE
                /\ task_list[i].title = PlanTitle(tasks[i])

\* C13 witness: a plan of three entries replaced a plan of two tasks.
C13_Witness ==
    /\ LastCreatesPlan
    /\ Len(last.before.task_list) = 2
    /\ Len(task_list) = 3
    /\ task_list[3].id = 3

\* the candidate fields of a plan entry, in priority order
Priority ==
    <<"title", "description", "command", "action", "name", "step", "instruction", "task">>

\* the title the stated rule gives an entry: the first candidate field that
\* holds a value, else the only value of a single-key mapping when it is a
\* scalar, else the printed entry; a bare string is its own title
RuleTitle(entry) ==
    LET d == entry.d
        matching == {i \in 1..Len(Priority) :
                        Priority[i] \in DOMAIN d /\ Truthy(d[Priority[i]])}
        first == CHOOSE i \in matching : \A j \in matching : i <= j
    IN IF ~entry.isdict THEN S(entry.repr)
       ELSE IF matching # {} THEN d[Priority[first]]
       ELSE IF Cardinality(DOMAIN d) = 1 /\ \A k \in DOMAIN d : IsScalar(d[k])
       THEN Str(d[CHOOSE k \in DOMAIN d : TRUE])
       ELSE S(entry.repr)

\* the task list holds, in order, the titles the stated rule gives the entries
TitlesFollowRule(entries) ==
    /\ Len(task_list) = Len(entries)
    /\ \A i \in 1..Len(entries) : task_list[i].title = RuleTitle(entries[i])

\* C14: the titles of a created plan, and of a revision a review applied, are
\* the ones the priority rule gives the entries: first matching candidate
\* field, else the scalar value of a single-key mapping, else the printed
\* entry; a bare string is its own title.
C14_TitleByPriority ==
    /\ LastCreatesPlan => TitlesFollowRule(LastArgs.kw.tasks.items)
    /\ (/\ last.reviewed
        /\ HasVerdict(last.env.reply)
        /\ ~ApprovedIn(last.env.reply)
        /\ RevisionIn(last.env.reply)) =>
          TitlesFollowRule(VerdictIn(last.env.reply).obj.revised_plan.items)

\* C15: every task of the task list has a non-empty string as title, an
\* integer id no other task of the list has, and a boolean done flag.
C15_TasksWellFormed ==
    \A i \in 1..Len(task_list) :
       /\ task_list[i].title.ty = "str"
       /\ task_list[i].title.txt # ""
       /\ task_list[i].id \in Nat
       /\ \A j \in 1..Len(task_list) : task_list[j].id = task_list[i].id => j = i
       /\ task_list[i].done \in BOOLEAN

\* the last tool call was mark_task_complete with a task id
LastMarks ==
    /\ last.path # "none"
    /\ LastName = "mark_task_complete"
    /\ LastArgs.form = "dict"
    /\ DOMAIN LastArgs.kw = {"task_id"}

\* C16: mark_task_complete is idempotent: in every reachable state and for
\* every id a second call leaves the bot as the first call left it, and once
\* mark_task_complete(id) has run, running it again changes nothing.
C16_MarkIdempotent ==
    /\ \A id \in TaskIds \cup 1..(Len(task_list) + 1) :
          LET once == mark_task_complete(Self, id).self
              twice == mark_task_complete(once, id).self
          IN twice = once
    /\ LastMarks => mark_task_complete(Self, LastArgs.kw.task_id).self = Self

\* C16 witness: mark_task_complete completed a task of a plan that has
\* other tasks still open.
C16_Witness ==
    /\ LastMarks
    /\ Len(task_list) >= 2
    /\ ~last.before.task_list[2].done
    /\ task_list[2].done
    /\ LastArgs.kw.task_id = 2

\* C17: mark_task_complete(id) returns status=success, sets the done flag
\* of the task with that id and changes nothing else in the task list; when
\* no task has that id the task list is unchanged.
C17_MarkOnlyThatTask ==
    LastMarks =>
       LET id == LastArgs.kw.task_id
           before == last.before.task_list
       IN /\ last.ret.status = "success"
          /\ Len(task_list) = Len(before)
          /\ \A i \in 1..Len(before) :
                task_list[i] = IF before[i].id = id THEN [before[i] EXCEPT !.done = TRUE]
                               ELSE before[i]
          /\ (\A i \in 1..Len(before) : before[i].id # id) => task_list = before

\* C17 witness: the second task of a plan was marked and the first one was
\* left open.
C17_Witness ==
    /\ LastMarks
    /\ LastArgs.kw.task_id = 2
    /\ Len(task_list) >= 2
    /\ task_list[2].done
    /\ ~task_list[1].done
    /\ ~last.before.task_list[2].done

\* the kitchen state GPTOSSChatBot.__init__ sets
InitialKitchenState ==
    [cabinet_open |-> B(FALSE), lid_on_gray_recipient |-> B(TRUE),
     pineapple_in_gray_recipient |-> B(FALSE), salt_added |-> B(FALSE)]

\* the value a key has after the partials ps were merged in order: that of
\* the last partial that supplies the key, else the value in state
FoldValue(state, ps, k) ==
    LET supplying == {i \in 1..Len(ps) : k \in DOMAIN ps[i]}
        latest == CHOOSE i \in supplying : \A j \in supplying : j <= i
    IN IF supplying = {} THEN state[k] ELSE ps[latest][k]

\* the left fold of the partials ps over state
FoldMerge(state, ps) ==
    [k \in (DOMAIN state) \cup UNION {DOMAIN ps[i] : i \in 1..Len(ps)} |->
        FoldValue(state, ps, k)]

\* C18: the kitchen state is the left fold, in call order, of the mappings
\* given to update_kitchen_state over the initial state: a later value
\* overwrites an earlier one, a key no mapping supplied keeps its initial
\* value or is absent, and no tool call removes a key.
C18_StateIsFoldOfPartials ==
    /\ kitchen_state = FoldMerge(InitialKitchenState, partials)
    /\ \A k \in DOMAIN kitchen_state :
          (\A i \in 1..Len(partials) : k \notin DOMAIN partials[i]) =>
             /\ k \in DOMAIN InitialKitchenState
             /\ kitchen_state[k] = InitialKitchenState[k]
    /\ last.path # "none" => DOMAIN last.before.kitchen_state \subseteq DOMAIN kitchen_state

\* C18 witness: two different mappings were merged, one of them adding a key
\* the initial state does not have.
C18_Witness ==
    /\ Len(partials) = 2
    /\ partials[1] # partials[2]
    /\ "blender" \in DOMAIN kitchen_state
    /\ \E k \in DOMAIN partials[1] \cap DOMAIN partials[2] :
          kitchen_state[k] = partials[2][k] /\ partials[1][k] # partials[2][k]

\* the last tool call was update_kitchen_state
LastUpdates ==
    /\ last.path # "none"
    /\ LastName = "update_kitchen_state"
    /\ LastArgs.form = "dict"
    /\ DOMAIN LastArgs.kw \subseteq {"state_updates"}

\* the state_updates argument of the last tool call
LastStateUpdates ==
    IF "state_updates" \in DOMAIN LastArgs.kw THEN LastArgs.kw.state_updates
    ELSE NoStateUpdates

\* C19: update_kitchen_state without an argument, with None, or with a value
\* that is not a mapping returns status=error and leaves the kitchen state as
\* it was; with a mapping it returns status=success and, as updated_state,
\* the bot's whole kitchen state, which now holds the merge.
C19_UpdateRejectsNonMapping ==
    LastUpdates =>
       IF LastStateUpdates.isnone \/ ~LastStateUpdates.isdict
       THEN /\ last.ret.status = "error"
            /\ "updated_state" \notin DOMAIN last.ret
            /\ kitchen_state = last.before.kitchen_state
       ELSE /\ last.ret.status = "success"
            /\ last.ret.updated_state = LiveState
            /\ kitchen_state = FoldMerge(last.before.kitchen_state, <<LastStateUpdates.d>>)

\* C19 witness: update_kitchen_state was called with a value that is not a
\* mapping, after a mapping had been merged.
C19_Witness ==
    /\ LastUpdates
    /\ ~LastStateUpdates.isnone
    /\ ~LastStateUpdates.isdict
    /\ last.ret.status = "error"
    /\ partials # <<>>

\* C20: a step changes the kitchen state only if it is the handling of an
\* update_kitchen_state tool call: execute_robot_command (accepted or
\* rejected), create_plan, mark_task_complete, get_current_plan and
\* review_plan, called by the model or by the guard, leave it as it is.
C20_OnlyUpdatesChangeState ==
    [][kitchen_state' # kitchen_state =>
          /\ pc \in {"dispatch", "fallback_dispatch"}
          /\ tool_calls_buffer[next_call].function.name = "update_kitchen_state"]_vars

\* C20 witness: "Put salt in the gray recipient" was accepted and forwarded
\* to the actuator, and salt_added is still false.
C20_Witness ==
    /\ LastExecutes(PutSalt)
    /\ last.ret.status = "success"
    /\ Len(sent) = last.before.nsent + 1
    /\ kitchen_state.salt_added = B(FALSE)
    /\ kitchen_state = last.before.kitchen_state

(***************************************************************************)
(* Conversation history, dispatch faults, termination, front end.          *)
(***************************************************************************)
\* C21: the conversation history only grows at its end: in every step of
\* chat(), of a tool dispatch, of the guard and of review_plan the history
\* before the step is a prefix of the history after it.
C21_HistoryAppendOnly ==
    [][/\ Len(conversation_history') >= Len(conversation_history)
       /\ SubSeq(conversation_history', 1, Len(conversation_history)) = conversation_history]_vars

\* C21 witness: the guard's review approved a plan with tasks, so one tool
\* call appended the plan message, the system message, the synthetic record
\* and the batch's messages after the user's message.
C21_Witness ==
    /\ last.guarded
    /\ last.final
    /\ last.ret.status = "success"
    /\ last.ret.approved
    /\ task_list # <<>>
    /\ Len(conversation_history) >= last.before.nhistory + 6
    /\ conversation_history[2].role = "user"

\* the nearest assistant message ahead of position i, 0 when there is none
NearestAssistant(i) ==
    LET ahead == {j \in 1..(i - 1) : conversation_history[j].role = "assistant"}
    IN IF ahead = {} THEN 0 ELSE CHOOSE j \in ahead : \A k \in ahead : k <= j

\* the tool message at position i answers a tool call that the assistant
\* message at position j declared: the call its id counts to, with its name
Answers(i, j) ==
    /\ "tool_calls" \in DOMAIN conversation_history[j]
    /\ \A k \in (j + 1)..(i - 1) : conversation_history[k].role = "tool"
    /\ LET declared == conversation_history[j].tool_calls
           message == conversation_history[i]
       IN IF message.tool_call_id = "call_review_autoguard"
          THEN /\ Len(declared) = 1
               /\ i = j + 1
               /\ declared[1].function.name = message.name
          ELSE /\ i - j <= Len(declared)
               /\ message.tool_call_id =
                     <<"call_0", "call_1", "call_2", "call_3", "call_4", "call_5">>[i - j]
               /\ declared[i - j].function.name = message.name

\* C22: every tool message of the history follows an assistant message that
\* declared its call: the nearest assistant message ahead of it has tool
\* calls, only tool messages lie between the two, and the tool message's id
\* and name are those of one of the declared calls; this covers the guard's
\* synthetic record and the tool results of a batch.
C22_ToolFollowsAssistant ==
    \A i \in 1..Len(conversation_history) :
       conversation_history[i].role = "tool" =>
          /\ NearestAssistant(i) # 0
          /\ Answers(i, NearestAssistant(i))

\* C22 witness: the history holds the guard's synthetic record, after the
\* plan message of the review, and the second tool result of a batch.
C22_Witness ==
    /\ \E i \in 1..Len(conversation_history) :
          /\ conversation_history[i].role = "tool"
          /\ conversation_history[i].tool_call_id = "call_review_autoguard"
          /\ i > 3
          /\ conversation_history[i - 2].role = "system"
    /\ \E i \in 1..Len(conversation_history) :
          /\ conversation_history[i].role = "tool"
          /\ conversation_history[i].tool_call_id = "call_1"

\* the bot's plan, approval, kitchen state, actuator calls and reviews are
\* what they were before the last tool call
BotUntouched ==
    /\ task_list = last.before.task_list
    /\ plan_approved = last.before.plan_approved
    /\ kitchen_state = last.before.kitchen_state
    /\ Len(sent) = last.before.nsent
    /\ reviews = last.before.reviews

\* the step handles a tool call for which the predicate holds
Handles(P(_)) ==
    /\ pc \in {"dispatch", "fallback_dispatch"}
    /\ last' # last
    /\ ~PreviewRaises(tool_calls_buffer[next_call])
    /\ P(tool_calls_buffer[next_call])

\* the for loop goes to the next tool call of the batch, or after the last
\* one the while loop goes to its next iteration; chat() does not return
LoopGoesOn ==
    /\ returned' = returned
    /\ IF next_call < Len(tool_calls_buffer)
       THEN pc' = pc /\ next_call' = next_call + 1 /\ tool_calls_buffer' = tool_calls_buffer
       ELSE pc' = "request" /\ step' = step

IsUnknown(tool_call) == tool_call.function.name \notin available_functions

\* C23: a tool call that names an unregistered function gets status=error
\* with "Unknown function: <name>", no handler runs for it, the tool message
\* recorded for it carries that outcome, and handling it never ends the
\* loop: the next call of the batch, or the next iteration, follows.
C23_UnknownFunctionReported ==
    /\ []((last.path # "none" /\ LastName = "get_robot_status") =>
             /\ last.ret = [status |-> "error",
                            error |-> "Unknown function: get_robot_status"]
             /\ BotUntouched)
    /\ [](\A i \in 1..Len(conversation_history) :
             (/\ conversation_history[i].role = "tool"
              /\ conversation_history[i].name = "get_robot_status") =>
                conversation_history[i].content =
                   [json |-> [status |-> "error",
                              error |-> "Unknown function: get_robot_status"]])
    /\ [][Handles(IsUnknown) => LoopGoesOn]_vars

\* C23 witness: the first call of a batch of two named an unregistered
\* function, the second call was handled after it, and the history holds the
\* tool message of the first.
C23_Witness ==
    /\ last.path # "none"
    /\ last.index = 2
    /\ last.final
    /\ last.prev = "get_robot_status"
    /\ pc = "request"
    /\ \E i \in 1..Len(conversation_history) :
          /\ conversation_history[i].role = "tool"
          /\ conversation_history[i].name = "get_robot_status"
          /\ conversation_history[i].tool_call_id = "call_0"

\* the fault Python raises when a registered handler is called with these
\* arguments, "" when the call binds
FaultOf(tool_call) ==
    LET name == tool_call.function.name
        arguments == tool_call.function.arguments
    IN IF arguments.form = "text"
       THEN "argument after ** must be a mapping, not str"
       ELSE IF \E k \in DOMAIN arguments.kw : k \notin Accepted(name)
       THEN "got an unexpected keyword argument"
       ELSE IF \E k \in Required(name) : k \notin DOMAIN arguments.kw
       THEN "missing required positional argument"
       ELSE ""

\* a registered handler is invoked for the call and the invocation raises
HandlerFaults(tool_call, guarded) ==
    /\ tool_call.function.name \in available_functions
    /\ ~guarded
    /\ FaultOf(tool_call) # ""

IsFaulty(tool_call) ==
    HandlerFaults(tool_call, pc = "dispatch" /\ GuardFires(Self, tool_call.function.name))

\* C24: when the invocation of a registered handler raises (arguments that
\* are a string that does not decode, a missing or an unexpected argument
\* name) the call's outcome is status=error with the exception's message,
\* the bot is left as it was, and the loop goes on with the next tool call
\* or the next iteration.
C24_HandlerFaultReported ==
    /\ []((last.path # "none" /\ HandlerFaults(last.tool_call, last.guarded)) =>
             /\ last.ret = [status |-> "error", error |-> FaultOf(last.tool_call)]
             /\ BotUntouched)
    /\ [][Handles(IsFaulty) => LoopGoesOn]_vars

\* C24 witness: the first call of a batch of two carried arguments that do
\* not decode, its outcome was an error, and the second call was handled.
C24_Witness ==
    /\ last.path # "none"
    /\ last.index = 2
    /\ last.prev = "mark_task_complete"
    /\ \E i \in 1..Len(conversation_history) :
          /\ conversation_history[i].role = "tool"
          /\ conversation_history[i].name = "mark_task_complete"
          /\ conversation_history[i].content =
                [json |-> [status |-> "error",
                           error |-> "argument after ** must be a mapping, not str"]]

MaxStepsMessage == "I executed many steps but reached the maximum step limit."

\* C25: every chat() call returns: the loop makes at most max_steps
\* iterations, one main request each, and when the bound is exhausted the
\* call returns the maximum-step-limit message, also when every reply of the
\* model carries a tool call.
C25_ChatTerminates ==
    /\ [](step <= max_steps)
    /\ [][(pc = "request" /\ step = max_steps) =>
             (pc' = "idle" /\ returned' = MaxStepsMessage /\ step' = step)]_vars
    /\ [][heard'.at = "main" /\ heard' # heard => step' = step + 1]_vars
    /\ [](returned = MaxStepsMessage => step = max_steps)
    /\ (pc # "idle") ~> (pc = "idle")

\* C25 witness: the model answered all fifty requests with a tool call and
\* chat() returned the maximum-step-limit message.
C25_Witness ==
    /\ pc = "idle"
    /\ returned = MaxStepsMessage
    /\ step = max_steps
    /\ calls >= max_steps

FallbackString == "I didn't understand that. Can you try again?"

\* the reply the loop heard has neither text nor tool calls
HeardNothing(h) ==
    /\ ~h.exc
    /\ h.status_code = 200
    /\ h.content = ""
    /\ h.tool_calls = <<>>

\* C26: a reply without text and tool calls is retried once; when the reply
\* to the retry is empty as well, chat() returns the fixed fallback string,
\* the history is what it was before the two replies, and the step bound is
\* respected.  The retry request is made only after an empty reply on a main
\* request, and what follows it is the return or the dispatch of its tool
\* calls, never another retry.
C26_EmptyTwiceFallsBack ==
    /\ []((heard.at = "retry" /\ HeardNothing(heard)) =>
             /\ pc = "idle"
             /\ returned = FallbackString
             /\ Len(conversation_history) = heard.nhistory
             /\ step <= max_steps)
    /\ [][pc' = "fallback_request" =>
             /\ pc = "request"
             /\ heard'.at = "main"
             /\ HeardNothing(heard')
             /\ conversation_history' = conversation_history]_vars
    /\ [][pc = "fallback_request" => pc' \in {"idle", "fallback_dispatch"}]_vars

\* C26 witness: in the second iteration the model's reply and its reply to
\* the retry were both empty and chat() returned the fallback string.
C26_Witness ==
    /\ heard.at = "retry"
    /\ HeardNothing(heard)
    /\ returned = FallbackString
    /\ step = 2

\* the reply the loop heard has text and no tool calls
HeardText(h) ==
    /\ h.at \in {"main", "retry"}
    /\ ~h.exc
    /\ h.status_code = 200
    /\ h.content # ""
    /\ h.tool_calls = <<>>

\* C27: after a reply with text and no tool calls the history has one more
\* message, an assistant message with that text, chat() has returned the
\* text, and the call is over: the loop makes no further request and
\* handles no tool call.
C27_TextReplyIsTerminal ==
    /\ [](HeardText(heard) =>
             /\ pc = "idle"
             /\ returned = heard.content
             /\ Len(conversation_history) = heard.nhistory + 1
             /\ conversation_history[Len(conversation_history)] =
                   [role |-> "assistant", content |-> [text |-> heard.content]])
    /\ [][pc = "idle" /\ pc' # "idle" => pc' = "request" /\ chats' = chats + 1]_vars

\* C27 witness: after a batch of tool calls the model replied with text.
C27_Witness ==
    /\ HeardText(heard)
    /\ heard.at = "main"
    /\ step = 2
    /\ returned = "Done."
    /\ last.path = "main"

\* C28: a main request that raises (timeout, transport) or gets a response
\* other than 200 ends chat() with an error message as its result; the
\* request is not repeated, nothing is appended and no tool call is handled
\* afterwards in that call.
C28_RequestFailureEndsChat ==
    [](((heard.at = "main") /\ (heard.exc \/ heard.status_code # 200)) =>
          /\ pc = "idle"
          /\ returned = (IF heard.exc THEN "Error calling GPT-OSS" ELSE "HTTP Error")
          /\ Len(conversation_history) = heard.nhistory
          /\ tool_calls_buffer = <<>>)

\* C28 witness: the second main request of a chat() call got a non-200
\* response.
C28_Witness ==
    /\ heard.at = "main"
    /\ ~heard.exc
    /\ heard.status_code = 500
    /\ step = 2
    /\ returned = "HTTP Error"

\* the last tool call handed a canonical instruction to execute_robot_command
LastForwards ==
    /\ last.path # "none"
    /\ LastName = "execute_robot_command"
    /\ ~last.guarded
    /\ LastArgs.form = "dict"
    /\ DOMAIN LastArgs.kw = {"language_instruction"}
    /\ LastArgs.kw.language_instruction \in CANONICAL_COMMANDS

IsForwarded(tool_call) ==
    /\ tool_call.function.name = "execute_robot_command"
    /\ ~(pc = "dispatch" /\ ~plan_approved)
    /\ DOMAIN tool_call.function.arguments.kw = {"language_instruction"}
    /\ tool_call.function.arguments.kw.language_instruction \in CANONICAL_COMMANDS

\* C29: for a canonical instruction past the guard, a fault raised by
\* send() gives status=error with the fault's message and the instruction,
\* a normal return gives status=success with the actuator's response (None
\* in a dry run); either outcome is the content of the call's tool message,
\* and the loop goes on.
C29_SendOutcomeWrapped ==
    /\ [](LastForwards =>
             /\ Len(sent) = last.before.nsent + 1
             /\ IF last.enabled /\ last.env.outcome = "refused"
                THEN last.ret = [status |-> "error", error |-> "connection refused",
                                 instruction |-> LastArgs.kw.language_instruction,
                                 use_angle_stop |-> TRUE]
                ELSE last.ret = [status |-> "success",
                                 result |-> IF last.enabled THEN S("ack") ELSE None,
                                 instruction |-> LastArgs.kw.language_instruction,
                                 use_angle_stop |-> TRUE]
             /\ last.final =>
                   /\ Len(conversation_history) >= last.before.nhistory + 1 + last.index
                   /\ conversation_history[last.before.nhistory + 1 + last.index] =
                         [role |-> "tool",
                          tool_call_id |->
                             <<"call_0", "call_1", "call_2", "call_3">>[last.index],
                          name |-> "execute_robot_command",
                          content |-> [json |-> last.ret]])
    /\ [][Handles(IsForwarded) => LoopGoesOn]_vars

\* C29 witness: with sending switched on, send() raised for a canonical
\* instruction of an approved plan and the error is in the history.
C29_Witness ==
    /\ LastForwards
    /\ last.path = "main"
    /\ last.before.plan_approved
    /\ last.enabled
    /\ last.env.outcome = "refused"
    /\ last.ret.status = "error"
    /\ last.final

\* chat() calls that are running
ActiveLoops == (IF pc # "idle" THEN 1 ELSE 0) + others

\* C30: at most one chat() call runs on the bot at any time: a message the
\* user submits while a call is running waits for that call to end.
C30_OneLoopAtATime == ActiveLoops <= 1

(***************************************************************************)
(* Batches, the validated plan, the review and the dry run.                *)
(***************************************************************************)
\* C31: the iteration that received a batch of k tool calls ends with the
\* history extended by an assistant message declaring the k calls and then
\* exactly k tool messages, one per call in call order and named after it;
\* while the batch is handled there is one outcome per call handled so far.
C31_BatchFullyRecorded ==
    /\ [](pc \in {"dispatch", "fallback_dispatch"} => Len(tool_results) = next_call - 1)
    /\ [][(pc \in {"dispatch", "fallback_dispatch"} /\ pc' # pc) =>
             LET k == Len(tool_calls_buffer)
                 n == Len(conversation_history')
             IN /\ n >= Len(conversation_history) + k + 1
                /\ conversation_history'[n - k].role = "assistant"
                /\ "tool_calls" \in DOMAIN conversation_history'[n - k]
                /\ conversation_history'[n - k].tool_calls = tool_calls_buffer
                /\ \A i \in 1..k :
                      /\ conversation_history'[n - k + i].role = "tool"
                      /\ conversation_history'[n - k + i].tool_call_id = CallId(i - 1)
                      /\ conversation_history'[n - k + i].name =
                            tool_calls_buffer[i].function.name]_vars

\* the titles of the tasks of a task list
TitlesOf(tl) == {tl[i].title : i \in 1..Len(tl)}

\* C32: every instruction handed to the actuator's send() is, at that
\* moment, the title of a task of the task list, and that list is approved.
C32_SentIsPlannedStep ==
    (last.path # "none" /\ Len(sent) = last.before.nsent + 1) =>
       /\ last.before.plan_approved
       /\ S(sent[Len(sent)].instruction) \in TitlesOf(last.before.task_list)

\* the steps of a task list: ids and titles in order, without the done flags
StepsOf(tl) == [i \in 1..Len(tl) |-> [id |-> tl[i].id, title |-> tl[i].title]]

\* C33: a step after which plan_approved is true leaves the ids and titles
\* of the task list, and their order, as they were: an approval is given to
\* the list as it stands when the review is asked, and while the approval
\* lasts no operation changes the steps, so the approved list always has the
\* steps of the plan the latest approving verdict was given for.
C33_ApprovedStepsStay ==
    [][plan_approved' => StepsOf(task_list') = StepsOf(task_list)]_vars

\* C33 witness: a task of an approved plan of two steps was marked complete
\* and the plan is still approved.
C33_Witness ==
    /\ last.path # "none"
    /\ LastName = "mark_task_complete"
    /\ last.before.plan_approved
    /\ plan_approved
    /\ Len(task_list) = 2
    /\ task_list[1].done
    /\ ~last.before.task_list[1].done

\* the step makes a review request
Reviews == reviews' # reviews

\* the messages a step appended to the history
Added == SubSeq(conversation_history', Len(conversation_history) + 1,
                Len(conversation_history'))

\* the review of the step obtained an approving verdict for a list with tasks
ApprovesTasks ==
    /\ HasVerdict(last'.env.reply)
    /\ ApprovedIn(last'.env.reply)
    /\ task_list' # <<>>

\* the messages the dispatcher itself appends in the step: the synthetic
\* record of a guard's review, and the record of the batch after its last call
AppendedByLoop ==
    (IF last'.guarded THEN 2 ELSE 0)
    + (IF last'.final THEN 1 + Len(tool_calls_buffer) ELSE 0)

\* C34: a review appends nothing of its own request to the history: no
\* rubric (a system message) and no payload (a user message).  Apart from
\* what the dispatcher records for the call, the history is unchanged by a
\* review unless the verdict approves and the task list has tasks; then
\* exactly two messages are appended, the assistant's plan summary and after
\* it the system message that starts the execution.
C34_ReviewKeepsHistoryClean ==
    [][Reviews =>
          /\ Len(Added) = (IF ApprovesTasks THEN 2 ELSE 0) + AppendedByLoop
          /\ ApprovesTasks =>
                /\ Added[1] = [role |-> "assistant", content |-> PlanMessage(task_list')]
                /\ Added[2] = [role |-> "system", content |-> BeginExecuting]
          /\ \A i \in 1..Len(Added) :
                /\ Added[i].role # "user"
                /\ Added[i].role = "system" => (ApprovesTasks /\ i = 2)]_vars

\* C34 witness: the model asked for a review of a plan of two tasks, the
\* verdict approved, and the plan summary and the system message are in the
\* history ahead of the record of the batch.
C34_Witness ==
    /\ last.reviewed
    /\ ~last.guarded
    /\ LastName = "review_plan"
    /\ last.ret.status = "success"
    /\ last.ret.approved
    /\ Len(task_list) = 2
    /\ Len(conversation_history) >= last.before.nhistory + 2
    /\ conversation_history[last.before.nhistory + 1] =
          [role |-> "assistant", content |-> PlanMessage(task_list)]
    /\ conversation_history[last.before.nhistory + 2].role = "system"

\* the verdict object the last review read
LastVerdict == VerdictIn(last.env.reply).obj

\* the verdict has this key and its value is not a list
NotAList(v, key) == key \in DOMAIN v /\ ~v[key].islist

\* C35: review_plan coerces the fields of a parsed verdict: without an
\* approved key, or with a falsy one, the plan is not approved and
\* plan_approved is false; reasons that are absent or not a list are
\* reported as the empty list; a revised_plan that is not a list counts as
\* absent, so no revision is applied and the task list stays.
C35_VerdictCoerced ==
    (last.reviewed /\ HasVerdict(last.env.reply)) =>
       /\ ("approved" \notin DOMAIN LastVerdict \/ ~Truthy(LastVerdict.approved)) =>
             /\ ~plan_approved
             /\ last.ret.approved = FALSE
       /\ ("reasons" \notin DOMAIN LastVerdict \/ NotAList(LastVerdict, "reasons")) =>
             last.ret.reasons = <<>>
       /\ NotAList(LastVerdict, "revised_plan") =>
             /\ last.ret.applied_revision = FALSE
             /\ task_list = last.before.task_list

\* C35 witness: a plan of two tasks was reviewed and the verdict had the
\* number 0 as approved, reasons that are not a list and a revised_plan that
\* is not a list.
C35_Witness ==
    /\ last.reviewed
    /\ HasVerdict(last.env.reply)
    /\ "approved" \in DOMAIN LastVerdict
    /\ LastVerdict.approved = I("0")
    /\ NotAList(LastVerdict, "reasons")
    /\ NotAList(LastVerdict, "revised_plan")
    /\ Len(task_list) = 2
    /\ last.ret.status = "success"

\* the review request failed: it raised, the response was not 200, the reply
\* does not parse, or it parses to something that is not an object (the
\* first .get on it raises)
ReviewFails(reply) ==
    \/ reply.exc
    \/ reply.status_code # 200
    \/ Unparseable(reply)
    \/ VerdictIn(reply).ok /\ ~VerdictIn(reply).isobj

\* C36: a review that fails returns status=error and leaves plan_approved,
\* the task list and the kitchen state as they were before the call; a plan
\* that was approved stays approved.
C36_FailedReviewChangesNothing ==
    (last.reviewed /\ ReviewFails(last.env.reply)) =>
       /\ last.ret.status = "error"
       /\ plan_approved = last.before.plan_approved
       /\ task_list = last.before.task_list
       /\ kitchen_state = last.before.kitchen_state

\* C36 witness: the plan was approved and a later review request raised.
C36_Witness ==
    /\ last.reviewed
    /\ last.env.reply.exc
    /\ last.before.plan_approved
    /\ plan_approved
    /\ last.ret.status = "error"

\* the verdict does not approve and its revised_plan is the empty list
RejectsWithEmptyRevision(reply) ==
    /\ HasVerdict(reply)
    /\ ~ApprovedIn(reply)
    /\ "revised_plan" \in DOMAIN VerdictIn(reply).obj
    /\ VerdictIn(reply).obj.revised_plan.islist
    /\ VerdictIn(reply).obj.revised_plan.items = <<>>

\* C37: a verdict with approved=false and an empty revised_plan applies no
\* revision: the task list keeps ids, titles and done flags, the review
\* reports applied_revision false, and plan_approved is false.
C37_EmptyRevisionNotApplied ==
    (last.reviewed /\ RejectsWithEmptyRevision(last.env.reply)) =>
       /\ task_list = last.before.task_list
       /\ last.ret.status = "success"
       /\ last.ret.applied_revision = FALSE
       /\ ~plan_approved

\* C37 witness: a plan of two tasks was reviewed by the guard and the
\* verdict rejected it with an empty revised_plan.
C37_Witness ==
    /\ last.reviewed
    /\ last.guarded
    /\ RejectsWithEmptyRevision(last.env.reply)
    /\ Len(task_list) = 2
    /\ task_list[2].title = S(PutSalt)

\* the last tool call was create_plan with an argument that is not a list
LastCreatesFromNonList ==
    /\ last.path # "none"
    /\ LastName = "create_plan"
    /\ LastArgs.form = "dict"
    /\ DOMAIN LastArgs.kw = {"tasks"}
    /\ ~LastArgs.kw.tasks.islist

\* C38: create_plan with an argument that is not a list returns
\* status=error and leaves the task list as it was, and plan_approved is
\* false afterwards, also when the plan was approved before the call.
C38_RejectedCreateRevokes ==
    LastCreatesFromNonList =>
       /\ last.ret = [status |-> "error", error |-> "tasks must be a list"]
       /\ task_list = last.before.task_list
       /\ ~plan_approved

\* C38 witness: an approved plan of two tasks lost its approval to a
\* create_plan call that was rejected.
C38_Witness ==
    /\ LastCreatesFromNonList
    /\ last.before.plan_approved
    /\ ~plan_approved
    /\ Len(task_list) = 2
    /\ last.ret.status = "error"

\* the calls of send() a step makes
NewlySent == {i \in 1..Len(sent') : i > Len(sent)}

\* C39: the toggle is off at the start, and while it is off no call of
\* send() opens a connection: a canonical instruction past the guard then
\* returns status=success with result None and nothing goes to the actuator.
\* A connection is opened only by a call made while the toggle is on.
C39_DryRunOpensNoSocket ==
    /\ ROBOT_SEND_ENABLED = FALSE
    /\ [][~ROBOT_SEND_ENABLED => \A i \in NewlySent : ~sent'[i].connected]_vars
    /\ []((last.path # "none" /\ Len(sent) = last.before.nsent + 1) =>
             sent[Len(sent)].connected = last.enabled)
    /\ []((LastForwards /\ ~last.enabled) =>
             last.ret = [status |-> "success", result |-> None,
                         instruction |-> LastArgs.kw.language_instruction,
                         use_angle_stop |-> TRUE])

\* C39 witness: with the toggle off, a canonical instruction of an approved
\* plan went through send() and came back as a success with result None.
C39_Witness ==
    /\ LastForwards
    /\ last.path = "main"
    /\ last.before.plan_approved
    /\ ~last.enabled
    /\ ~ROBOT_SEND_ENABLED
    /\ last.ret.status = "success"
    /\ last.ret.result = None
    /\ ~sent[Len(sent)].connected

\* the tool messages the plain bot appended in its last step
PlainToolMessages ==
    LET h == plain.conversation_history
        h2 == plain'.conversation_history
    IN SelectSeq(SubSeq(h2, Len(h) + 1, Len(h2)), LAMBDA m : m.role = "tool")

\* C40: in the plain bot of gpt-oss-chat-function.py, when a batch of tool
\* calls has been handled and is recorded in the history, every call of the
\* batch has a tool message, and every tool message bears the name of its
\* call and carries what that very call came to; this also when the batch
\* holds a function name that is not registered.
C40_PlainToolMessagesMatch ==
    [][(plain.pc = "tools" /\ plain'.pc = "idle") =>
          LET msgs == PlainToolMessages
          IN /\ Len(msgs) = Len(plain.tool_calls)
             /\ \A i \in 1..Len(msgs) :
                   /\ i <= Len(plain.tool_calls)
                   /\ msgs[i].name = plain.tool_calls[i].function.name
                   /\ plain.outcomes[i].handled
                   /\ msgs[i].content = [json |-> plain.outcomes[i].ret]]_vars

====
